---- MODULE Spec2Model ----
(***************************************************************************)
(* Verification model of the Nexora fraud-prediction backend:              *)
(*   - services/otpService.js      (one-time-code store)                   *)
(*   - services/websocketService.js (connection registry, live push)       *)
(*   - routes/api.js               (alert trigger / acknowledge routes,    *)
(*                                  risk scoring, content analysis)        *)
(*   - services/notificationService.js (notification router)               *)
(* Strings are sequences of one-character strings, times are milliseconds. *)
(***************************************************************************)
EXTENDS Integers, Sequences, FiniteSets, TLC

VARIABLES
  now,        \* Date.now(), in ms since process start
  otpStore,   \* services/otpService.js: otpStore (Map key -> record)
  timers,     \* pending setTimeout deletions scheduled by verify
  nextSweep,  \* time of the next setInterval(cleanup) run
  nextRef,    \* identity given to the next record object created by generate
  issuedAt,   \* history: per key, time of the last successful generate (-1: never)
  accepted,   \* history: identities of the records whose code verify has accepted
  res,        \* result returned by the last one-time-code operation
  io,             \* websocketService.js: io (FALSE: null, TRUE: the Server)
  connectedUsers, \* websocketService.js: connectedUsers (userId -> set of socket ids)
  sockets,        \* open socket.io connections: socket id -> userId of its room
  nextSocket,     \* id given to the next socket
  wsOut,          \* result of the last registry operation
  DEMO_MODE,  \* global.DEMO_MODE
  users,      \* the User collection: userId -> document
  reports,    \* the FraudReport collection
  demoReports, \* routes/api.js: demoStorage.reports
  nextAlertId, \* _id given to the next pendingAlerts subdocument
  acks,       \* history: acknowledgments carried out so far
  alertOut,   \* response of the last alert / settings request
  riskOut,    \* outcome of the last risk check, report, analysis or dispatch
  account,    \* the stored User document of one account: loginAttempts, lockUntil
  logins      \* the login requests in flight: slot -> position, loaded document

otpVars == <<otpStore, timers, nextSweep, nextRef, issuedAt, accepted, res>>
wsVars == <<io, connectedUsers, sockets, nextSocket, wsOut>>

alertVars == <<DEMO_MODE, users, reports, demoReports, nextAlertId, acks, alertOut>>

riskVars == <<riskOut>>

loginVars == <<account, logins>>

vars == <<now, otpVars, wsVars, alertVars, riskVars, loginVars>>

\* what a step of one component leaves alone
OtpOnly == UNCHANGED <<wsVars, alertVars, riskVars, loginVars>>
WsOnly == UNCHANGED <<now, otpVars, alertVars, riskVars, loginVars>>
AlertOnly == UNCHANGED <<otpVars, wsVars, riskVars, loginVars>>
RiskOnly ==
  UNCHANGED <<now, otpVars, wsVars, users, nextAlertId, acks, alertOut, loginVars>>
LoginOnly == UNCHANGED <<otpVars, wsVars, alertVars, riskVars>>

(***************************************************************************)
(* String primitives (String.prototype.toLowerCase / trim)                 *)
(***************************************************************************)
UpperCase == <<"A", "B", "C", "D", "E", "F", "G", "H", "I", "J", "K", "L", "M", "N", "O", "P", "Q", "R", "S", "T", "U", "V", "W", "X", "Y", "Z">>
LowerCase == <<"a", "b", "c", "d", "e", "f", "g", "h", "i", "j", "k", "l", "m", "n", "o", "p", "q", "r", "s", "t", "u", "v", "w", "x", "y", "z">>
UpperLetters == {UpperCase[i] : i \in DOMAIN UpperCase}
LowerOf == [c \in UpperLetters |->
              LowerCase[CHOOSE i \in DOMAIN UpperCase : UpperCase[i] = c]]

LowerChar(c) == IF c \in UpperLetters THEN LowerOf[c] ELSE c

toLowerCase(s) == [i \in 1..Len(s) |-> LowerChar(s[i])]

\* the white space of the model's alphabet (what trim and \s match)
WhiteSpace == {" ", "\t"}

RECURSIVE trimStart(_)
trimStart(s) ==
  IF s # <<>> /\ Head(s) \in WhiteSpace THEN trimStart(Tail(s)) ELSE s

RECURSIVE trimEnd(_)
trimEnd(s) ==
  IF s # <<>> /\ s[Len(s)] \in WhiteSpace
  THEN trimEnd(SubSeq(s, 1, Len(s) - 1)) ELSE s

trim(s) == trimEnd(trimStart(s))

Ceil_floor(a, b) == a \div b
\* Math.ceil(a / b) for b > 0
Ceil(a, b) == -((-a) \div b)

(***************************************************************************)
(* OTP_CONFIG and the timer constants of otpService.js                     *)
(***************************************************************************)
OTP_length == 6
expiryMinutes == 10
maxAttempts == 3
cooldownMinutes == 1
GraceMs == 5000
CleanupIntervalMs == 5 * 60 * 1000
VerifiedMaxAgeMs == 300000

cooldownMs == cooldownMinutes * 60 * 1000
expiryMs == expiryMinutes * 60 * 1000

(***************************************************************************)
(* Bounds of the model                                                     *)
(***************************************************************************)
MaxGen == 2          \* successful generate calls explored
MaxTime == 600001    \* the clock stops here

\* instants the clock may advance to (besides timer and sweep deadlines)
Instants ==
  {0, 1, 1000, cooldownMs - 1, cooldownMs, expiryMs, expiryMs + 1}

GenDigits == {"1", "2"}
\* generateOTP(): a string of OTP_length decimal digits
GenCodes == {[i \in 1..OTP_length |-> d] : d \in GenDigits}
\* candidate codes submitted to verify (one with surrounding blanks)
InputOTPs == GenCodes \cup {<<" ">> \o [i \in 1..OTP_length |-> "1"] \o <<" ">>}

RawIdentifiers == {<<"a">>, <<" ", "A", " ">>}
Purposes == {<<"k", "y", "c">>}

createOTPKey(identifier, purpose) ==
  purpose \o <<":">> \o trim(toLowerCase(identifier))

Keys == {createOTPKey(i, p) : i \in RawIdentifiers, p \in Purposes}

(***************************************************************************)
(* Map helpers                                                             *)
(***************************************************************************)
MapSet(m, k, v) == [x \in DOMAIN m \cup {k} |-> IF x = k THEN v ELSE m[x]]
MapDelete(m, k) == [x \in DOMAIN m \ {k} |-> m[x]]
EmptyMap == [x \in {} |-> 0]

NoStr == <<>>
Result(op, key, ok, err) ==
  [op |-> op, key |-> key, input |-> NoStr, success |-> ok, error |-> err,
   waitSeconds |-> -1, remainingAttempts |-> -1, otp |-> NoStr]
Internal(op) == Result(op, NoStr, TRUE, "none")

(***************************************************************************)
(* otpService.generate                                                     *)
(***************************************************************************)
InCooldown_seconds(store, key, t) ==
  key \in DOMAIN store /\ t - store[key].createdAt < cooldownMinutes * 60
InCooldown(store, key, t) ==
  key \in DOMAIN store /\ t - store[key].createdAt < cooldownMs

generate(store, key, t, code, ref) ==
  IF InCooldown(store, key, t)
  THEN [store |-> store,
        res |-> [Result("generate", key, FALSE, "cooldown") EXCEPT
                   !.waitSeconds =
                      Ceil(cooldownMs - (t - store[key].createdAt), 1000)]]
  ELSE [store |-> MapSet(store, key,
                    [otp |-> code, createdAt |-> t, expiresAt |-> t + expiryMs,
                     attempts |-> 0, verified |-> FALSE, ref |-> ref]),
        res |-> [Result("generate", key, TRUE, "none") EXCEPT !.otp = code]]

(***************************************************************************)
(* otpService.verify: the new store, the result, and whether the           *)
(* grace-period deletion timer is scheduled                                *)
(***************************************************************************)
\* the mutants of the checks below (each a plausible slip in that line)
AlreadyUsed_never(stored) == FALSE
AlreadyUsed(stored) == stored.verified

Expired(stored, t) == t > stored.expiresAt

AttemptsExhausted_late(stored) == stored.attempts > maxAttempts
AttemptsExhausted(stored) == stored.attempts >= maxAttempts

CodeMatches(stored, inputOTP) == stored.otp = trim(inputOTP)

Remaining_stale(attempts) == maxAttempts - (attempts - 1)
Remaining(attempts) == maxAttempts - attempts

verify(store, key, inputOTP, t) ==
  LET fail(e) == [Result("verify", key, FALSE, e) EXCEPT !.input = inputOTP] IN
  IF key \notin DOMAIN store
  THEN [store |-> store, res |-> fail("not_found"), timer |-> FALSE]
  ELSE LET stored == store[key] IN
    IF AlreadyUsed(stored)
    THEN [store |-> store, res |-> fail("already_used"), timer |-> FALSE]
    ELSE IF Expired(stored, t)
    THEN [store |-> MapDelete(store, key), res |-> fail("expired"),
          timer |-> FALSE]
    ELSE IF AttemptsExhausted(stored)
    THEN [store |-> MapDelete(store, key), res |-> fail("max_attempts"),
          timer |-> FALSE]
    ELSE LET bumped == [stored EXCEPT !.attempts = @ + 1] IN
      IF ~CodeMatches(stored, inputOTP)
      THEN [store |-> MapSet(store, key, bumped),
            res |-> [fail("invalid") EXCEPT
                       !.remainingAttempts = Remaining(bumped.attempts)],
            timer |-> FALSE]
      ELSE [store |-> MapSet(store, key, [bumped EXCEPT !.verified = TRUE]),
            res |-> [Result("verify", key, TRUE, "none") EXCEPT
                       !.input = inputOTP],
            timer |-> TRUE]

\* otpService.cleanup: which records one sweep removes
Swept(value, t) ==
  t > value.expiresAt \/ (value.verified /\ t - value.createdAt > VerifiedMaxAgeMs)

cleanup(store, t) ==
  [k \in {x \in DOMAIN store : ~Swept(store[x], t)} |-> store[k]]

(***************************************************************************)
(* Actions of the one-time-code service                                    *)
(***************************************************************************)
OtpInit ==
  /\ now = 0
  /\ otpStore = EmptyMap
  /\ timers = {}
  /\ nextSweep = CleanupIntervalMs
  /\ nextRef = 1
  /\ issuedAt = [k \in Keys |-> -1]
  /\ accepted = {}
  /\ res = Internal("init")

Generate(identifier, purpose, code) ==
  LET key == createOTPKey(identifier, purpose)
      out == generate(otpStore, key, now, code, nextRef) IN
  /\ out.res.success => nextRef <= MaxGen
  /\ otpStore' = out.store
  /\ res' = out.res
  /\ nextRef' = IF out.res.success THEN nextRef + 1 ELSE nextRef
  /\ issuedAt' = IF out.res.success THEN [issuedAt EXCEPT ![key] = now]
                 ELSE issuedAt
  /\ UNCHANGED <<now, timers, nextSweep, accepted>>
  /\ OtpOnly

Verify(identifier, purpose, inputOTP) ==
  LET key == createOTPKey(identifier, purpose)
      out == verify(otpStore, key, inputOTP, now) IN
  /\ otpStore' = out.store
  /\ res' = out.res
  /\ timers' = IF out.timer
               THEN timers \cup {[key |-> key, fireAt |-> now + GraceMs]}
               ELSE timers
  /\ accepted' = IF out.res.success THEN accepted \cup {otpStore[key].ref}
                 ELSE accepted
  /\ UNCHANGED <<now, nextSweep, nextRef, issuedAt>>
  /\ OtpOnly

Invalidate(identifier, purpose) ==
  LET key == createOTPKey(identifier, purpose) IN
  /\ otpStore' = MapDelete(otpStore, key)
  /\ res' = Result("invalidate", key, TRUE, "none")
  /\ UNCHANGED <<now, timers, nextSweep, nextRef, issuedAt, accepted>>
  /\ OtpOnly

\* POST /kyc/send-otp: generate, then invalidate when the e-mail cannot be sent
KycSendOtp(identifier, code, emailOk) ==
  LET key == createOTPKey(identifier, <<"k", "y", "c">>)
      out == generate(otpStore, key, now, code, nextRef) IN
  /\ out.res.success => nextRef <= MaxGen
  /\ otpStore' = IF out.res.success /\ ~emailOk
                 THEN MapDelete(out.store, key) ELSE out.store
  /\ res' = [out.res EXCEPT !.op = "send-otp",
                            !.error = IF out.res.success /\ ~emailOk
                                      THEN "email_failed" ELSE @]
  /\ nextRef' = IF out.res.success THEN nextRef + 1 ELSE nextRef
  /\ issuedAt' = IF out.res.success THEN [issuedAt EXCEPT ![key] = now]
                 ELSE issuedAt
  /\ UNCHANGED <<now, timers, nextSweep, accepted>>
  /\ OtpOnly

\* the setTimeout callback of verify: otpStore.delete(key)
TimerFire(tm) ==
  /\ tm \in timers
  /\ now >= tm.fireAt
  /\ otpStore' = MapDelete(otpStore, tm.key)
  /\ timers' = timers \ {tm}
  /\ res' = Internal("timer")
  /\ UNCHANGED <<now, nextSweep, nextRef, issuedAt, accepted>>
  /\ OtpOnly

\* setInterval(otpService.cleanup, 5 min)
Cleanup ==
  /\ now >= nextSweep
  /\ otpStore' = cleanup(otpStore, now)
  /\ nextSweep' = nextSweep + CleanupIntervalMs
  /\ res' = Internal("cleanup")
  /\ UNCHANGED <<now, timers, nextRef, issuedAt, accepted>>
  /\ OtpOnly

Deadlines == {tm.fireAt : tm \in timers} \cup {nextSweep}

\* the clock advances, never past a callback that is due
Tick ==
  \E t \in Instants \cup Deadlines :
    /\ t > now
    /\ t <= MaxTime
    /\ \A d \in Deadlines : t <= d
    /\ now' = t
    /\ res' = Internal("tick")
    /\ UNCHANGED <<otpStore, timers, nextSweep, nextRef, issuedAt, accepted>>
    /\ OtpOnly

OtpNext ==
  \/ \E i \in RawIdentifiers, p \in Purposes, c \in GenCodes : Generate(i, p, c)
  \/ \E i \in RawIdentifiers, p \in Purposes, c \in InputOTPs : Verify(i, p, c)
  \/ \E i \in RawIdentifiers, p \in Purposes : Invalidate(i, p)
  \/ \E i \in RawIdentifiers, c \in GenCodes, ok \in BOOLEAN : KycSendOtp(i, c, ok)
  \/ \E tm \in timers : TimerFire(tm)
  \/ Cleanup
  \/ Tick

\* codes are issued during the first sweep period and the clock runs on
\* until the last of them has expired and a sweep has come after that
LastIssue == CleanupIntervalMs
Horizon == LastIssue + expiryMs + CleanupIntervalMs

SweepTick ==
  \E t \in Instants \cup Deadlines :
    /\ t > now
    /\ t <= Horizon
    /\ \A d \in Deadlines : t <= d
    /\ now' = t
    /\ res' = Internal("tick")
    /\ UNCHANGED <<otpStore, timers, nextSweep, nextRef, issuedAt, accepted>>
    /\ OtpOnly

Issue(identifier, purpose, code) ==
  now <= LastIssue /\ Generate(identifier, purpose, code)

SweepNext ==
  \/ \E i \in RawIdentifiers, p \in Purposes, c \in GenCodes : Issue(i, p, c)
  \/ \E i \in RawIdentifiers, p \in Purposes, c \in InputOTPs : Verify(i, p, c)
  \/ \E tm \in timers : TimerFire(tm)
  \/ Cleanup
  \/ SweepTick

(***************************************************************************)
(* Claims about the one-time-code service                                  *)
(***************************************************************************)
IsGen(r) == r.op \in {"generate", "send-otp"}
Live(k) == k \in DOMAIN otpStore

\* C1 (as stated): once the third wrong code in a row has been rejected
\* (remainingAttempts = 0) the record is gone from the store, so that the
\* fourth verify answers not_found.
C1_DeletedAfterThirdWrong ==
  (res.op = "verify" /\ res.error = "invalid" /\ res.remainingAttempts = 0)
    => ~Live(res.key)

\* C1 (amended): the third wrong verify leaves the record stored with
\* attempts = maxAttempts; the next verify before expiry deletes it and
\* answers max_attempts; a verify on a key without a record answers not_found.
C1_FourthCallDeletes ==
  /\ [](res.op = "verify" /\ res.error = "invalid" /\ res.remainingAttempts = 0
         => Live(res.key) /\ otpStore[res.key].attempts = maxAttempts)
  /\ [][res'.op = "verify" =>
         LET k == res'.key IN
         /\ (Live(k) /\ ~otpStore[k].verified /\ now <= otpStore[k].expiresAt
               /\ otpStore[k].attempts = maxAttempts)
             => (res'.error = "max_attempts" /\ k \notin DOMAIN otpStore')
         /\ ~Live(k) => (res'.error = "not_found" /\ otpStore' = otpStore)]_vars

C1_Witness ==
  res.op = "verify" /\ res.error = "max_attempts" /\ ~Live(res.key)

\* C2 (as stated): a generate made less than the cooldown window after the
\* last successful generate for its key fails with cooldown and
\* waitSeconds > 0, whatever happened in between.
C2_NeverTwoWithinCooldown ==
  [][(IsGen(res') /\ issuedAt[res'.key] >= 0
        /\ now - issuedAt[res'.key] < cooldownMs)
      => (res'.error = "cooldown" /\ res'.waitSeconds > 0)]_vars

\* C2 (amended): the same, provided the record created by the earlier
\* generate is still stored under the key when the later generate is made.
C2_CooldownWhileStored ==
  [][(IsGen(res') /\ issuedAt[res'.key] >= 0
        /\ now - issuedAt[res'.key] < cooldownMs /\ Live(res'.key))
      => (~res'.success /\ res'.error = "cooldown" /\ res'.waitSeconds > 0
          /\ issuedAt' = issuedAt)]_vars

C2_Witness ==
  IsGen(res) /\ res.error = "cooldown" /\ now - issuedAt[res.key] = cooldownMs - 1

\* C3: a correct code on an unexpired, unverified record below the attempt
\* limit is accepted; a record's code is accepted at most once; afterwards
\* verify answers already_used while that record is stored and not_found
\* once the key has no record.
C3_AcceptedAtMostOnce ==
  [][res'.op = "verify" =>
      LET k == res'.key IN
      /\ (Live(k) /\ ~otpStore[k].verified /\ now <= otpStore[k].expiresAt
            /\ otpStore[k].attempts < maxAttempts
            /\ otpStore[k].otp = trim(res'.input)) => res'.success
      /\ res'.success => (Live(k) /\ otpStore[k].ref \notin accepted)
      /\ (Live(k) /\ otpStore[k].ref \in accepted)
           => (res'.error = "already_used" /\ otpStore' = otpStore)
      /\ (~Live(k) /\ accepted # {}) => res'.error = "not_found"]_vars

C3_Witness ==
  /\ res.op = "verify" /\ res.error = "already_used"
  /\ Live(res.key) /\ otpStore[res.key].ref \in accepted
  /\ otpStore[res.key].otp = trim(res.input)

\* C4: verify decides in the order not_found, already_used, expired (record
\* deleted), max_attempts (record deleted); otherwise attempts grows by one
\* and the codes are compared: invalid with remainingAttempts =
\* maxAttempts - attempts, or success with verified set.
C4_VerifyOrder ==
  [][res'.op = "verify" =>
      LET k == res'.key
          old == otpStore[k]
          new == otpStore'[k] IN
      IF ~Live(k) THEN res'.error = "not_found" /\ otpStore' = otpStore
      ELSE IF old.verified
        THEN res'.error = "already_used" /\ otpStore' = otpStore
      ELSE IF now > old.expiresAt
        THEN res'.error = "expired" /\ otpStore' = MapDelete(otpStore, k)
      ELSE IF old.attempts >= maxAttempts
        THEN res'.error = "max_attempts" /\ otpStore' = MapDelete(otpStore, k)
      ELSE /\ k \in DOMAIN otpStore'
           /\ new.attempts = old.attempts + 1
           /\ IF old.otp # trim(res'.input)
              THEN /\ res'.error = "invalid" /\ ~res'.success
                   /\ res'.remainingAttempts = maxAttempts - new.attempts
                   /\ res'.remainingAttempts \in 0..(maxAttempts - 1)
                   /\ new = [old EXCEPT !.attempts = @ + 1]
              ELSE /\ res'.success
                   /\ new = [old EXCEPT !.attempts = @ + 1, !.verified = TRUE]
     ]_vars

C4_Witness ==
  /\ res.op = "verify" /\ res.error = "invalid" /\ res.remainingAttempts = 1
  /\ Live(res.key) /\ otpStore[res.key].attempts = 2

\* C5: a generate refused with cooldown reports the remaining cooldown
\* rounded up to whole seconds (1..60) and leaves the stored record as it
\* was; no new code is issued.
C5_CooldownLeavesRecord ==
  [][(IsGen(res') /\ res'.error = "cooldown") =>
      LET k == res'.key
          left == cooldownMs - (now - otpStore[k].createdAt)
          w == res'.waitSeconds IN
      /\ Live(k)
      /\ otpStore' = otpStore
      /\ ~res'.success /\ res'.otp = NoStr /\ nextRef' = nextRef
      /\ w \in 1..(cooldownMinutes * 60)
      /\ (w - 1) * 1000 < left /\ left <= w * 1000]_vars

C5_Witness ==
  /\ IsGen(res) /\ res.error = "cooldown" /\ res.waitSeconds = 60
  /\ now - otpStore[res.key].createdAt = 1


(***************************************************************************)
(* Connection registry and live push (services/websocketService.js)        *)
(***************************************************************************)
MaxSockets == 4      \* sockets opened in one run

UserIds == {"u1", "u2"}

\* handshake credentials: none, one that jwt.verify rejects, one it accepts
Tokens ==
  {[kind |-> "none", userId |-> ""], [kind |-> "invalid", userId |-> ""]}
    \cup {[kind |-> "valid", userId |-> u] : u \in UserIds}

authenticate_lax(token) ==
  IF token.kind = "none" THEN "Authentication required" ELSE "ok"
\* io.use(...): the authentication middleware
authenticate(token) ==
  IF token.kind = "none" THEN "Authentication required"
  ELSE IF token.kind = "invalid" THEN "Invalid token"
  ELSE "ok"

isUserConnected(userId) ==
  userId \in DOMAIN connectedUsers /\ Cardinality(connectedUsers[userId]) > 0

getConnectedUsersCount == Cardinality(DOMAIN connectedUsers)

\* the sockets that joined room `user:${userId}`
Room(userId) == {s \in DOMAIN sockets : sockets[s] = userId}

\* io.on('connection'): track the socket under its user
onConnection(cu, userId, sid) ==
  MapSet(cu, userId, (IF userId \in DOMAIN cu THEN cu[userId] ELSE {}) \cup {sid})

onDisconnect_dropUser(cu, userId, sid) == MapDelete(cu, userId)
\* socket.on('disconnect'): forget the socket, and the user with its last one
onDisconnect(cu, userId, sid) ==
  IF userId \in DOMAIN cu
  THEN LET userSockets == cu[userId] \ {sid} IN
       IF Cardinality(userSockets) = 0 THEN MapDelete(cu, userId)
       ELSE MapSet(cu, userId, userSockets)
  ELSE cu

\* websocketService.sendAlert: its return value and the sockets the
\* 'alert:new' event is emitted to
sendAlert(ioUp, userId) ==
  IF ~ioUp THEN [ret |-> FALSE, to |-> {}]
  ELSE [ret |-> TRUE, to |-> Room(userId)]

WsOut(op, userId, ret, to) == [op |-> op, userId |-> userId, ret |-> ret, to |-> to]

WsInit ==
  /\ io = FALSE
  /\ connectedUsers = EmptyMap
  /\ sockets = EmptyMap
  /\ nextSocket = 1
  /\ wsOut = WsOut("init", "", FALSE, {})

\* server.js: websocketService.initialize(server)
InitializeWebSocket ==
  /\ ~io
  /\ io' = TRUE
  /\ wsOut' = WsOut("initialize", "", TRUE, {})
  /\ UNCHANGED <<connectedUsers, sockets, nextSocket>>
  /\ WsOnly

\* a client opens a channel with the given handshake credential
Connect(token) ==
  /\ io
  /\ nextSocket <= MaxSockets
  /\ IF authenticate(token) # "ok"
     THEN /\ wsOut' = WsOut("rejected", "", FALSE, {})
          /\ UNCHANGED <<connectedUsers, sockets, nextSocket>>
     ELSE /\ connectedUsers' = onConnection(connectedUsers, token.userId, nextSocket)
          /\ sockets' = MapSet(sockets, nextSocket, token.userId)
          /\ nextSocket' = nextSocket + 1
          /\ wsOut' = WsOut("connected", token.userId, TRUE, {nextSocket})
  /\ UNCHANGED io
  /\ WsOnly

\* a channel closes: socket.io leaves its rooms and emits 'disconnect'
Disconnect(sid) ==
  /\ sid \in DOMAIN sockets
  /\ connectedUsers' = onDisconnect(connectedUsers, sockets[sid], sid)
  /\ sockets' = MapDelete(sockets, sid)
  /\ wsOut' = WsOut("disconnect", sockets[sid], TRUE, {sid})
  /\ UNCHANGED <<io, nextSocket>>
  /\ WsOnly

SendAlert(userId) ==
  LET out == sendAlert(io, userId) IN
  /\ wsOut' = WsOut("sendAlert", userId, out.ret, out.to)
  /\ UNCHANGED <<io, connectedUsers, sockets, nextSocket>>
  /\ WsOnly

WsNext ==
  \/ InitializeWebSocket
  \/ \E token \in Tokens : Connect(token)
  \/ \E sid \in DOMAIN sockets : Disconnect(sid)
  \/ \E u \in UserIds : SendAlert(u)

(***************************************************************************)
(* Claims about the connection registry                                    *)
(***************************************************************************)
HasOpenChannel(u) == \E s \in DOMAIN sockets : sockets[s] = u

\* C6: isUserConnected(u) holds exactly when u has an open channel, the
\* registry keeps no entry with an empty channel set, each entry lists
\* exactly the open channels of its user, and getConnectedUsersCount counts
\* the users with an open channel.
C6_OnlineIffOpenChannel ==
  /\ \A u \in UserIds : isUserConnected(u) <=> HasOpenChannel(u)
  /\ \A u \in DOMAIN connectedUsers :
        connectedUsers[u] # {} /\ connectedUsers[u] = Room(u)
  /\ getConnectedUsersCount = Cardinality({u \in UserIds : HasOpenChannel(u)})

\* one of two open channels of a user has just closed, and the only channel
\* of the other user has closed before
C6_Witness ==
  /\ wsOut.op = "disconnect" /\ isUserConnected(wsOut.userId)
  /\ \E u \in UserIds : u # wsOut.userId /\ ~isUserConnected(u)
  /\ nextSocket > 3

\* C7 (as stated): sendAlert returns true exactly when the alert went to at
\* least one open channel of the user; for a user without an open channel
\* it returns false.
C7_TrueIffDelivered ==
  wsOut.op = "sendAlert" => (wsOut.ret <=> wsOut.to # {})

\* C11: a channel-open attempt without a token, or with a token that fails
\* verification, is rejected before the connection handler: it adds no
\* channel to the registry, joins no room and receives no 'connected';
\* every channel of the registry was added by an accepted handshake and is
\* listed under the user id of its verified token.
C11_RejectedBeforeRegistration ==
  /\ [](\A u \in DOMAIN connectedUsers :
         /\ u \in {t.userId : t \in {x \in Tokens : x.kind = "valid"}}
         /\ \A s \in connectedUsers[u] : s \in DOMAIN sockets /\ sockets[s] = u)
  /\ [][/\ wsOut'.op = "rejected"
           => /\ connectedUsers' = connectedUsers
              /\ sockets' = sockets
              /\ ~wsOut'.ret /\ wsOut'.to = {}
        /\ \A s \in DOMAIN sockets' \ DOMAIN sockets :
              /\ wsOut'.op = "connected" /\ wsOut'.to = {s}
              /\ wsOut'.userId = sockets'[s]
              /\ [kind |-> "valid", userId |-> sockets'[s]] \in Tokens
              /\ s \in connectedUsers'[sockets'[s]]
        /\ \A u \in DOMAIN connectedUsers' :
              \A s \in connectedUsers'[u] :
                 (u \notin DOMAIN connectedUsers \/ s \notin connectedUsers[u])
                   => s \in DOMAIN sockets' \ DOMAIN sockets]_vars

\* an attempt was rejected while another user's channel is registered
C11_Witness ==
  /\ wsOut.op = "rejected"
  /\ DOMAIN connectedUsers # {} /\ DOMAIN connectedUsers # UserIds
  /\ nextSocket > 1


(***************************************************************************)
(* Entity normalisation and the crowd-intelligence score (routes/api.js)   *)
(***************************************************************************)
Range(f) == {f[i] : i \in DOMAIN f}

\* the character class [\s\-\(\)\+\.]
FormatChars == WhiteSpace \cup {"-", "(", ")", "+", "."}

stripFormatting_once(s) ==
  IF \E i \in DOMAIN s : s[i] \in FormatChars
  THEN LET first == CHOOSE i \in DOMAIN s :
                      /\ s[i] \in FormatChars
                      /\ \A j \in 1..(i - 1) : s[j] \notin FormatChars IN
       SubSeq(s, 1, first - 1) \o SubSeq(s, first + 1, Len(s))
  ELSE s
stripFormatting(s) == SelectSeq(s, LAMBDA c : c \notin FormatChars)

normalizeEntity(entity) ==
  LET normalized == trim(toLowerCase(entity)) IN
  IF "@" \in Range(normalized) THEN normalized ELSE stripFormatting(normalized)

\* report timestamps are kept in whole days (a 30-day span in ms exceeds
\* the integers of the checker); DayOf gives the day of a clock reading
WindowDays == 30
MsPerDay == 24 * 60 * 60 * 1000
DayOf(t) == t \div MsPerDay

\* the hard-coded table of the demo path
demoFraudEntities ==
  (<<"9", "9", "4", "4", "0", "8", "4", "7", "5", "4">>
     :> [category |-> "Phishing", count |-> 3])
  @@ (<<"f", "r", "a", "u", "d", "@", "t", "e", "s", "t", ".", "c", "o", "m">>
     :> [category |-> "Identity Theft", count |-> 2])
  @@ (<<"s", "c", "a", "m", "@", "u", "p", "i">>
     :> [category |-> "Financial Fraud", count |-> 5])
  @@ (<<"2", "4", "1", "c", "b", "0", "1", "6", "@", "s", "r", "c", "w", ".",
        "a", "c", ".", "i", "n">>
     :> [category |-> "Phishing", count |-> 30])

\* reports.reduce(...): 1 per report, 2 more for Phishing / Identity Theft
RECURSIVE ScoreOf(_)
ScoreOf(rs) ==
  IF rs = <<>> THEN 0
  ELSE (IF Head(rs).category \in {"Phishing", "Identity Theft"} THEN 3 ELSE 1)
       + ScoreOf(Tail(rs))

RiskLevelOf_strict(score) ==
  IF score = 0 THEN "safe" ELSE IF score < 5 THEN "suspicious" ELSE "high_risk"
RiskLevelOf(score) ==
  IF score = 0 THEN "safe" ELSE IF score <= 5 THEN "suspicious" ELSE "high_risk"

\* the reports the demo path scores
DemoLookup(normalizedEntity, demoReps, t) ==
  SelectSeq(demoReps, LAMBDA r : r.targetEntity = normalizedEntity /\ r.isActive)
  \o (IF normalizedEntity \in DOMAIN demoFraudEntities
      THEN [i \in 1..demoFraudEntities[normalizedEntity].count |->
              [targetEntity |-> normalizedEntity,
               category |-> demoFraudEntities[normalizedEntity].category,
               timestamp |-> DayOf(t), isActive |-> TRUE]]
      ELSE <<>>)

\* FraudReport.find({targetEntity, timestamp >= thirtyDaysAgo, isActive})
DbLookup(normalizedEntity, dbReports, t) ==
  SelectSeq(dbReports, LAMBDA r : /\ r.targetEntity = normalizedEntity
                                  /\ r.timestamp >= DayOf(t) - WindowDays
                                  /\ r.isActive)

\* calculateFraudRisk: the response payload and the value global.DEMO_MODE
\* has afterwards (a failing lookup switches it on and the call starts over)
calculateFraudRisk(targetEntity, demo, reportsOk, dbReports, demoReps, t) ==
  LET normalizedEntity == normalizeEntity(targetEntity)
      demoAfter == demo \/ ~reportsOk
      found == IF demoAfter THEN DemoLookup(normalizedEntity, demoReps, t)
               ELSE DbLookup(normalizedEntity, dbReports, t)
      score == ScoreOf(found)
      level == RiskLevelOf(score) IN
  [demo |-> demoAfter,
   reports |-> found,
   payload |->
     [schemaVersion |-> "2.0.0", targetEntity |-> normalizedEntity,
      score |-> score, riskLevel |-> level,
      riskColor |-> (CASE level = "safe" -> "green"
                       [] level = "suspicious" -> "yellow"
                       [] OTHER -> "red"),
      riskMessage |-> level, totalReports |-> Len(found),
      investigativeProtocols |-> <<>>, checkedAt |-> t, isDemo |-> demoAfter]]

(***************************************************************************)
(* The User collection: protection settings, pending alerts, history       *)
(***************************************************************************)
PendingCap == 100
HistoryCap == 500

MaxAcks == 2         \* acknowledgments carried out in one run
MaxClock == 1        \* clock ticks while alerts are handled

\* UserSchema.statics.findByProtectedEntity: the matching user ids
findByProtectedEntity(docs, entity, entityType) ==
  LET normalized == stripFormatting(trim(toLowerCase(entity))) IN
  CASE entityType = "call" ->
         {u \in DOMAIN docs :
            /\ docs[u].protectionSettings.callProtection.enabled
            /\ docs[u].protectionSettings.callProtection.registeredPhone = normalized}
    [] entityType = "sms" ->
         {u \in DOMAIN docs :
            /\ docs[u].protectionSettings.smsProtection.enabled
            /\ docs[u].protectionSettings.smsProtection.registeredPhone = normalized}
    [] entityType = "email" ->
         {u \in DOMAIN docs :
            /\ docs[u].protectionSettings.emailProtection.enabled
            /\ docs[u].protectionSettings.emailProtection.registeredEmail
                 = trim(toLowerCase(entity))}
    [] OTHER -> {}

sliceLast_first(seq, n) == SubSeq(seq, 1, n)
\* Array.prototype.slice(-n)
sliceLast(seq, n) ==
  IF Len(seq) > n THEN SubSeq(seq, Len(seq) - n + 1, Len(seq)) ELSE seq

\* push, then keep only the last `cap` items
pushCapped(list, item, cap) ==
  LET pushed == Append(list, item) IN
  IF Len(pushed) > cap THEN sliceLast(pushed, cap) ELSE pushed

\* DocumentArray.prototype.id: the position of the subdocument, 0 if none
RECURSIVE IndexOfId(_, _)
IndexOfId(list, alertId) ==
  IF list = <<>> THEN 0
  ELSE IF list[Len(list)].id = alertId THEN Len(list)
  ELSE IndexOfId(SubSeq(list, 1, Len(list) - 1), alertId)

\* GET /alerts/pending (and pendingAlertsCount of the public profile):
\* the demo-mode mock user has no pendingAlerts
PendingView(docs, demo, u) ==
  IF demo THEN <<>>
  ELSE SelectSeq(docs[u].pendingAlerts, LAMBDA a : ~a.acknowledged)

pendingAlertsCount(docs, demo, u) == Len(PendingView(docs, demo, u))

HistoryEntry_noDefault(alert, action, t) ==
  [alertType |-> alert.alertType, fromEntity |-> alert.fromEntity,
   riskLevel |-> alert.riskLevel, riskScore |-> alert.riskScore,
   action |-> action, timestamp |-> t]
\* the entry acknowledge pushes onto alertHistory ("" is an absent action)
HistoryEntry(alert, action, t) ==
  [alertType |-> alert.alertType, fromEntity |-> alert.fromEntity,
   riskLevel |-> alert.riskLevel, riskScore |-> alert.riskScore,
   action |-> IF action = "" THEN "dismissed" ELSE action, timestamp |-> t]

\* riskResult.reportDetails[0]?.category || 'Unknown': reading [0] of a
\* field the payload does not have throws a TypeError
ReadCategory(riskResult) ==
  IF "reportDetails" \notin DOMAIN riskResult THEN "TypeError"
  ELSE IF riskResult.reportDetails = <<>> THEN "Unknown"
  ELSE riskResult.reportDetails[1].category

AlertOut(op, status) ==
  [op |-> op, status |-> status, userId |-> "", alertId |-> 0, action |-> "",
   fault |-> "none", matched |-> {}, riskLevel |-> "", riskScore |-> -1,
   alertsCreated |-> -1, pushed |-> {}]

(***************************************************************************)
(* Initial content of the collections                                      *)
(***************************************************************************)
PhoneKey == <<"9", "8">>
EmailKey == <<"a", "@", "b">>
SafeEntity == <<"5", "5">>
SuspiciousEntity == <<"6", "6">>
HighRiskEntity == <<"7", "7">>

\* one Phishing report on 66 (score 3), two on 77 (score 6), an inactive
\* and an outdated report on 55
ReportSeed ==
  << [targetEntity |-> SuspiciousEntity, category |-> "Phishing",
      timestamp |-> 0, isActive |-> TRUE],
     [targetEntity |-> HighRiskEntity, category |-> "Phishing",
      timestamp |-> 0, isActive |-> TRUE],
     [targetEntity |-> HighRiskEntity, category |-> "Phishing",
      timestamp |-> 0, isActive |-> TRUE],
     [targetEntity |-> SafeEntity, category |-> "Phishing",
      timestamp |-> 0, isActive |-> FALSE],
     [targetEntity |-> SafeEntity, category |-> "Other",
      timestamp |-> 0 - WindowDays - 1, isActive |-> TRUE] >>

SeedAlert(id) ==
  [id |-> id, alertType |-> "call", fromEntity |-> SuspiciousEntity,
   riskLevel |-> "suspicious", riskScore |-> id, message |-> "default",
   category |-> "Phishing", createdAt |-> 0,
   acknowledged |-> FALSE, acknowledgedAt |-> -1]

\* a history of n entries, the i-th marked by its riskScore
SeedHistory(n) ==
  [i \in 1..n |->
     [alertType |-> "sms", fromEntity |-> HighRiskEntity, riskLevel |-> "high_risk",
      riskScore |-> i, action |-> "reported", timestamp |-> 0]]

NoProtection ==
  [callProtection |-> [enabled |-> FALSE, registeredPhone |-> <<>>],
   smsProtection |-> [enabled |-> FALSE, registeredPhone |-> <<>>],
   emailProtection |-> [enabled |-> FALSE, registeredEmail |-> <<>>]]

CallProtected ==
  [NoProtection EXCEPT !.callProtection =
     [enabled |-> TRUE, registeredPhone |-> PhoneKey]]

\* the collections as the process finds them: u1 has two pending alerts and
\* a history of n entries, u2 one pending alert
StoreInit(n, protection) ==
  /\ DEMO_MODE = FALSE
  /\ users = [u \in UserIds |->
       IF u = "u1"
       THEN [protectionSettings |-> protection,
             pendingAlerts |-> <<SeedAlert(1), SeedAlert(2)>>,
             alertHistory |-> SeedHistory(n)]
       ELSE [protectionSettings |-> protection,
             pendingAlerts |-> <<SeedAlert(11)>>,
             alertHistory |-> <<>>]]
  /\ reports = ReportSeed
  /\ demoReports = <<>>
  /\ nextAlertId = 21
  /\ acks = 0
  /\ alertOut = AlertOut("init", 0)

AlertInit == StoreInit(0, NoProtection)

\* both users have registered the phone; the history of u1 is one short
\* of the cap, that of u2 empty
AckInit == StoreInit(HistoryCap - 1, CallProtected)

(***************************************************************************)
(* Requests                                                                *)
(***************************************************************************)
\* POST /settings/protection (one of callProtection / emailProtection given)
UpdateProtection(u, kind, enabled, value, dbOk) ==
  /\ IF ~DEMO_MODE /\ ~dbOk
     THEN /\ alertOut' = [AlertOut("protection", 500) EXCEPT !.userId = u]
          /\ UNCHANGED users
     ELSE /\ alertOut' = [AlertOut("protection", 200) EXCEPT !.userId = u]
          /\ users' =
               IF DEMO_MODE THEN users
               ELSE IF kind = "call"
               THEN [users EXCEPT ![u].protectionSettings.callProtection =
                       [enabled |-> enabled,
                        registeredPhone |-> stripFormatting(value)]]
               ELSE [users EXCEPT ![u].protectionSettings.emailProtection =
                       [enabled |-> enabled,
                        registeredEmail |-> trim(toLowerCase(value))]]
  /\ UNCHANGED <<now, DEMO_MODE, reports, demoReports, nextAlertId, acks>>
  /\ AlertOnly

\* POST /alerts/trigger
TriggerAlert(alertType, recipient, fromEntity, usersOk, reportsOk) ==
  LET lookedUp == alertType \in {"call", "sms", "email", "upi"} /\ recipient # <<>>
      matched == IF lookedUp
                 THEN findByProtectedEntity(users, recipient, alertType) ELSE {}
      risk == calculateFraudRisk(fromEntity, DEMO_MODE, reportsOk, reports,
                                 demoReports, now)
      riskResult == risk.payload
      base == [AlertOut("trigger", 200) EXCEPT !.matched = matched]
      seen == [base EXCEPT !.riskLevel = riskResult.riskLevel,
                           !.riskScore = riskResult.score]
      alertData(id) ==
        [id |-> id, alertType |-> alertType,
         fromEntity |-> trim(toLowerCase(fromEntity)),
         riskLevel |-> riskResult.riskLevel, riskScore |-> riskResult.score,
         message |-> "default", category |-> ReadCategory(riskResult),
         createdAt |-> now, acknowledged |-> FALSE, acknowledgedAt |-> -1]
      \* the users in the order the loop visits them
      order == CHOOSE f \in [1..Cardinality(matched) -> matched] :
                 \A i, j \in DOMAIN f : i # j => f[i] # f[j]
      idOf(u) == nextAlertId + (CHOOSE i \in DOMAIN order : order[i] = u) - 1
  IN
  /\ IF lookedUp /\ ~usersOk
     THEN \* the user lookup throws
          /\ alertOut' = AlertOut("trigger", 500)
          /\ UNCHANGED <<DEMO_MODE, users, nextAlertId>>
     ELSE IF matched = {}
     THEN /\ alertOut' = [base EXCEPT !.alertsCreated = 0]
          /\ UNCHANGED <<DEMO_MODE, users, nextAlertId>>
     ELSE IF riskResult.riskLevel = "safe"
     THEN /\ alertOut' = [seen EXCEPT !.alertsCreated = 0]
          /\ DEMO_MODE' = risk.demo
          /\ UNCHANGED <<users, nextAlertId>>
     ELSE IF ReadCategory(riskResult) = "TypeError"
     THEN \* building alertData for the first user throws
          /\ alertOut' = [seen EXCEPT !.status = 500]
          /\ DEMO_MODE' = risk.demo
          /\ UNCHANGED <<users, nextAlertId>>
     ELSE /\ users' = [u \in DOMAIN users |->
                IF u \in matched
                THEN [users[u] EXCEPT !.pendingAlerts =
                        pushCapped(@, alertData(idOf(u)), PendingCap)]
                ELSE users[u]]
          /\ nextAlertId' = nextAlertId + Cardinality(matched)
          /\ alertOut' = [seen EXCEPT !.alertsCreated = Cardinality(matched),
                                      !.pushed = {u \in matched : sendAlert(io, u).ret}]
          /\ DEMO_MODE' = risk.demo
  /\ UNCHANGED <<now, reports, demoReports, acks>>
  /\ AlertOnly

\* POST /alerts/acknowledge/:alertId
Acknowledge(u, alertId, action, fault) ==
  LET out(status) == [AlertOut("acknowledge", status) EXCEPT
                        !.userId = u, !.alertId = alertId, !.action = action,
                        !.fault = fault]
      doc == users[u]
      at == IndexOfId(doc.pendingAlerts, alertId)
      alert == doc.pendingAlerts[at] IN
  /\ acks < MaxAcks
  /\ IF DEMO_MODE
     THEN \* the mock user of authenticateToken has no pendingAlerts
          /\ alertOut' = out(404)
          /\ UNCHANGED <<users, acks>>
     ELSE IF fault = "auth"
     THEN \* User.findById throws inside authenticateToken
          /\ alertOut' = out(500)
          /\ UNCHANGED <<users, acks>>
     ELSE IF at = 0
     THEN /\ alertOut' = out(404)
          /\ UNCHANGED <<users, acks>>
     ELSE IF fault = "save"
     THEN \* req.user.save() rejects: nothing is written
          /\ alertOut' = out(500)
          /\ UNCHANGED <<users, acks>>
     ELSE /\ users' = [users EXCEPT
                ![u].pendingAlerts[at] =
                   [@ EXCEPT !.acknowledged = TRUE, !.acknowledgedAt = now],
                ![u].alertHistory =
                   pushCapped(@, HistoryEntry(alert, action, now), HistoryCap)]
          /\ acks' = acks + 1
          /\ alertOut' = out(200)
  /\ UNCHANGED <<now, DEMO_MODE, reports, demoReports, nextAlertId>>
  /\ AlertOnly

AlertTick ==
  /\ now < MaxClock
  /\ now' = now + 1
  /\ alertOut' = AlertOut("tick", 0)
  /\ UNCHANGED <<DEMO_MODE, users, reports, demoReports, nextAlertId, acks>>
  /\ AlertOnly

RawPhones == {<<"+", "9", " ", "8">>}
RawEmails == {<<" ", "A", "@", "b">>}
Recipients == {<<"9", "-", "8">>, <<"A", "@", "b", " ">>, <<"9", "7">>}
FromEntities ==
  {SafeEntity, <<"6", "-", "6">>, HighRiskEntity,
   <<"9", "9", "4", "4", "0", "8", "4", "7", "5", "4">>}
AckActions == {"", "blocked"}
\* the ids of a user's own alerts, one of another user, one of no alert
AckIds(u) == IF u = "u1" THEN {1, 2, 11} ELSE {11, 99}
Faults == {"none", "auth", "save"}

TriggerNext ==
  \/ \E u \in UserIds, en \in BOOLEAN, v \in RawPhones, ok \in BOOLEAN :
       UpdateProtection(u, "call", en, v, ok)
  \/ \E u \in UserIds, en \in BOOLEAN, v \in RawEmails, ok \in BOOLEAN :
       UpdateProtection(u, "email", en, v, ok)
  \/ \E ty \in {"call", "sms", "email", "upi"}, r \in Recipients,
        f \in FromEntities, uok \in BOOLEAN, rok \in BOOLEAN :
       TriggerAlert(ty, r, f, uok, rok)

AckNext ==
  \/ \E u \in UserIds, a \in AckActions :
       \E id \in AckIds(u) : Acknowledge(u, id, a, "none")
  \/ \E fault \in Faults \ {"none"} : Acknowledge("u1", 1, "", fault)
  \/ \E rok \in BOOLEAN :
       TriggerAlert("call", <<"9", "-", "8">>, HighRiskEntity, TRUE, rok)
  \/ AlertTick


(***************************************************************************)
(* Claims about the alert routes                                           *)
(***************************************************************************)
Min(a, b) == IF a < b THEN a ELSE b

\* C8 (as stated): a trigger for a suspicious or high_risk entity with
\* k >= 1 registered users answers 200 with alertsCreated = k, appends to
\* each of them one unacknowledged alert carrying the entity, level and
\* score and pushes it; for a safe entity no alert is created.
C8_TriggerCreatesAlerts ==
  [][alertOut'.op = "trigger" /\ alertOut'.matched # {} =>
      IF alertOut'.riskLevel \in {"suspicious", "high_risk"}
      THEN /\ alertOut'.status = 200
           /\ alertOut'.alertsCreated = Cardinality(alertOut'.matched)
           /\ alertOut'.pushed = alertOut'.matched
           /\ \A u \in alertOut'.matched :
                LET old == users[u].pendingAlerts
                    new == users'[u].pendingAlerts
                    a == new[Len(new)] IN
                /\ Len(new) = Min(Len(old) + 1, PendingCap)
                /\ ~a.acknowledged
                /\ a.riskLevel = alertOut'.riskLevel
                /\ a.riskScore = alertOut'.riskScore
           /\ \A u \in UserIds \ alertOut'.matched : users'[u] = users[u]
      ELSE alertOut'.alertsCreated = 0 /\ users' = users]_vars

\* C9: a successful acknowledge marks the alert acknowledged at the current
\* time, removes it from the pending view and count, and appends exactly one
\* history entry with the alert's type, entity, level, score and the action
\* ('dismissed' when absent); an id that matches no alert of the user is
\* answered 404 and nothing changes.
C9_AcknowledgeMovesToHistory ==
  [][alertOut'.op = "acknowledge" =>
      LET u == alertOut'.userId
          id == alertOut'.alertId
          old == users[u]
          new == users'[u]
          at == IndexOfId(old.pendingAlerts, id)
          was == old.pendingAlerts[at]
          e == new.alertHistory[Len(new.alertHistory)]
          view == PendingView(users', DEMO_MODE', u) IN
      IF alertOut'.status = 200
      THEN /\ at > 0
           /\ new.pendingAlerts =
                [old.pendingAlerts EXCEPT ![at] =
                   [was EXCEPT !.acknowledged = TRUE, !.acknowledgedAt = now]]
           /\ \A i \in DOMAIN view : view[i].id # id
           /\ pendingAlertsCount(users', DEMO_MODE', u)
                = pendingAlertsCount(users, DEMO_MODE, u)
                    - (IF was.acknowledged THEN 0 ELSE 1)
           /\ Len(new.alertHistory) = Min(Len(old.alertHistory) + 1, HistoryCap)
           /\ e = [alertType |-> was.alertType, fromEntity |-> was.fromEntity,
                   riskLevel |-> was.riskLevel, riskScore |-> was.riskScore,
                   action |-> IF alertOut'.action = "" THEN "dismissed"
                              ELSE alertOut'.action,
                   timestamp |-> now]
           /\ \A i \in 1..(Len(new.alertHistory) - 1) :
                new.alertHistory[i]
                  = old.alertHistory[i + Len(old.alertHistory) + 1
                                        - Len(new.alertHistory)]
           /\ \A v \in UserIds \ {u} : users'[v] = users[v]
      ELSE /\ users' = users
           /\ (at = 0 /\ alertOut'.fault # "auth") => alertOut'.status = 404
     ]_vars

C9_Witness ==
  /\ alertOut.op = "acknowledge" /\ alertOut.status = 200 /\ alertOut.action = ""
  /\ LET doc == users[alertOut.userId] IN
     /\ doc.alertHistory # <<>>
     /\ doc.alertHistory[Len(doc.alertHistory)].action = "dismissed"
     /\ doc.pendingAlerts[IndexOfId(doc.pendingAlerts, alertOut.alertId)].acknowledged
     /\ pendingAlertsCount(users, DEMO_MODE, alertOut.userId)
          < Len(doc.pendingAlerts)

Ids(list) == [i \in DOMAIN list |-> list[i].id]

\* what pushing one item under a cap leaves of the old list: all of it
\* below the cap, all but the oldest item at the cap
KeptOf(old, cap) == IF Len(old) < cap THEN old ELSE Tail(old)

NoUser == ""

\* websocketService.sendNotification: its return value and the sockets the
\* 'notification' event is emitted to
sendNotification(ioUp, userId) ==
  IF ~ioUp THEN [ret |-> FALSE, to |-> {}]
  ELSE [ret |-> TRUE, to |-> Room(userId)]

\* unifiedPayload.channels
Channels(priority, targetChannel) ==
  [websocket |-> TRUE,
   sms |-> targetChannel = "sms" \/ priority = "critical",
   email |-> priority = "high" \/ priority = "critical"]

\* notificationService.sendTwilioSMS: logs the message and reports it queued
sendTwilioSMS(userId, payload) ==
  [success |-> TRUE, provider |-> "twilio", status |-> "queued"]

dispatch_pushFlag(userId, notificationData, ioUp) ==
  LET pushed == sendNotification(ioUp, userId)
      unifiedPayload ==
        [id |-> now, schemaVersion |-> "2.0.0", type |-> notificationData.type,
         priority |-> notificationData.priority, timestamp |-> now,
         payload |-> [title |-> notificationData.content.title,
                      actionUrl |-> "null", metadata |-> <<>>],
         channels |-> [Channels(notificationData.priority,
                                notificationData.targetChannel)
                         EXCEPT !.websocket = pushed.to # {}]] IN
  [userId |-> userId, unifiedPayload |-> unifiedPayload,
   deliveries |-> <<"websocket">>
                    \o (IF unifiedPayload.channels.sms THEN <<"sms">> ELSE <<>>),
   pushed |-> pushed,
   sms |-> IF unifiedPayload.channels.sms
           THEN sendTwilioSMS(userId, unifiedPayload) ELSE [success |-> FALSE],
   outcome |-> "resolved"]
\* notificationService.dispatch: the envelope (its id and timestamp are the
\* clock reading), the deliveries carried out in order, what the push
\* reached, the answer of the SMS step and how the promise settles
dispatch(userId, notificationData, ioUp) ==
  LET unifiedPayload ==
        [id |-> now, schemaVersion |-> "2.0.0", type |-> notificationData.type,
         priority |-> notificationData.priority, timestamp |-> now,
         payload |-> [title |-> notificationData.content.title,
                      actionUrl |-> "null", metadata |-> <<>>],
         channels |-> Channels(notificationData.priority,
                               notificationData.targetChannel)] IN
  [userId |-> userId, unifiedPayload |-> unifiedPayload,
   deliveries |-> <<"websocket">>
                    \o (IF unifiedPayload.channels.sms THEN <<"sms">> ELSE <<>>),
   pushed |-> sendNotification(ioUp, userId),
   sms |-> IF unifiedPayload.channels.sms
           THEN sendTwilioSMS(userId, unifiedPayload) ELSE [success |-> FALSE],
   outcome |-> "resolved"]

\* a notification is routed to a user while channels open and close
Notify(userId, priority, targetChannel) ==
  /\ \E d \in {dispatch(userId, [type |-> "THREAT_ALERT", priority |-> priority,
                                  content |-> [title |-> "High Risk Alert"],
                                  targetChannel |-> targetChannel], io)} :
       riskOut' = [op |-> "notify", userId |-> userId, type |-> "THREAT_ALERT",
                   priority |-> priority, title |-> "High Risk Alert",
                   targetChannel |-> targetChannel,
                   at |-> now, unifiedPayload |-> d.unifiedPayload,
                   deliveries |-> d.deliveries, pushed |-> d.pushed,
                   sms |-> d.sms, outcome |-> d.outcome]
  /\ UNCHANGED <<now, otpVars, wsVars, alertVars, loginVars>>

NotifyNext ==
  \/ InitializeWebSocket
  \/ \E token \in Tokens : Connect(token)
  \/ \E sid \in DOMAIN sockets : Disconnect(sid)
  \/ \E u \in UserIds, p \in {"low", "critical"}, t \in {"web", "sms"} :
       Notify(u, p, t)

(***************************************************************************)
(* Risk checks and report submissions (routes/api.js)                      *)
(***************************************************************************)
MaxReports == 6      \* reports submitted in one run

ThreatAlert ==
  [type |-> "THREAT_ALERT", priority |-> "critical",
   content |-> [title |-> "High Risk Alert"], targetChannel |-> "web_and_sms"]

threatAlerts_anonymous(riskLevel, userId, ioUp) ==
  IF riskLevel = "high_risk"
  THEN <<dispatch(userId, ThreatAlert, ioUp)>> ELSE <<>>
\* the dispatch calls of one calculateFraudRisk call
threatAlerts(riskLevel, userId, ioUp) ==
  IF riskLevel = "high_risk" /\ userId # NoUser
  THEN <<dispatch(userId, ThreatAlert, ioUp)>> ELSE <<>>

\* calculateFraudRisk as its callers see it.  A call whose lookup throws
\* sets DEMO_MODE and returns the result of a second call, without reaching
\* its own dispatch.
checkRisk(targetEntity, userId, demo, reportsOk, dbReports, demoReps, t, ioUp) ==
  LET r == calculateFraudRisk(targetEntity, demo, reportsOk, dbReports, demoReps, t) IN
  [demo |-> r.demo, reports |-> r.reports, payload |-> r.payload,
   retried |-> ~demo /\ ~reportsOk,
   dispatched |-> threatAlerts(r.payload.riskLevel, userId, ioUp)]

RiskOut(op, status) ==
  [op |-> op, status |-> status, entity |-> <<>>, userId |-> NoUser,
   retried |-> FALSE, reports |-> <<>>, result |-> [riskLevel |-> ""],
   dispatched |-> <<>>, dispatchOk |-> TRUE]

RiskIdle == riskOut = RiskOut("init", 0)

ReportedEntity == <<"8", "8">>
MockEntity == <<"9", "9", "4", "4", "0", "8", "4", "7", "5", "4">>

\* the collections as the process finds them
RiskInit ==
  /\ DEMO_MODE = FALSE
  /\ users = [u \in UserIds |->
       [protectionSettings |-> NoProtection, pendingAlerts |-> <<>>,
        alertHistory |-> <<>>]]
  /\ reports = ReportSeed
  /\ demoReports = <<>>
  /\ nextAlertId = 21
  /\ acks = 0
  /\ alertOut = AlertOut("init", 0)

\* POST /fraud/report
ReportFraud(targetEntity, category, saveOk) ==
  LET normalizedEntity == trim(toLowerCase(targetEntity))
      report == [targetEntity |-> normalizedEntity, category |-> category,
                 timestamp |-> DayOf(now), isActive |-> TRUE] IN
  /\ Len(reports) + Len(demoReports) < Len(ReportSeed) + MaxReports
  /\ IF DEMO_MODE
     THEN /\ demoReports' = Append(demoReports, report)
          /\ riskOut' = [RiskOut("report", 201) EXCEPT !.entity = normalizedEntity]
          /\ UNCHANGED reports
     ELSE IF saveOk
     THEN /\ reports' = Append(reports, report)
          /\ riskOut' = [RiskOut("report", 201) EXCEPT !.entity = normalizedEntity]
          /\ UNCHANGED demoReports
     ELSE /\ riskOut' = [RiskOut("report", 500) EXCEPT !.entity = normalizedEntity]
          /\ UNCHANGED <<reports, demoReports>>
  /\ UNCHANGED DEMO_MODE
  /\ RiskOnly

\* POST /check-risk, GET /check-risk/:entity; dispatchOk is whether the
\* promise of a dispatch that was started resolves
RiskCheck(entity, userId, reportsOk) ==
  \E r \in {checkRisk(entity, userId, DEMO_MODE, reportsOk, reports,
                      demoReports, now, io)} :
    \E dispatchOk \in (IF r.dispatched = <<>> THEN {TRUE} ELSE BOOLEAN) :
      /\ DEMO_MODE' = r.demo
      /\ riskOut' = [op |-> "checkRisk", status |-> 200, entity |-> entity,
                     userId |-> userId, retried |-> r.retried,
                     reports |-> r.reports, result |-> r.payload,
                     dispatched |-> r.dispatched, dispatchOk |-> dispatchOk]
      /\ UNCHANGED <<reports, demoReports>>
      /\ RiskOnly

Categories == {"Phishing", "Identity Theft", "Other"}
\* the address the API test checks (test-api.js)
TestEmail ==
  <<"2", "4", "1", "c", "b", "0", "1", "6", "@", "s", "r", "c", "w", ".",
    "a", "c", ".", "i", "n">>
CheckedEntities == {<<"8", "-", "8">>, SafeEntity, MockEntity, TestEmail}

\* reports are submitted grouped by category, in this order
CategoryRank(c) == CASE c = "Other" -> 1 [] c = "Phishing" -> 2 [] OTHER -> 3
Submittable ==
  LET store == IF DEMO_MODE THEN demoReports ELSE reports IN
  {c \in Categories :
     store = <<>> \/ CategoryRank(store[Len(store)].category) <= CategoryRank(c)}

\* a signed-in user submits a report
SubmitReport(category, saveOk) ==
  category \in Submittable /\ ReportFraud(ReportedEntity, category, saveOk)

RiskNext ==
  \/ \E c \in Categories, ok \in BOOLEAN : SubmitReport(c, ok)
  \/ \E e \in CheckedEntities, u \in {NoUser, "u1"}, rok \in BOOLEAN :
       RiskCheck(e, u, rok)

\* the report-then-check round trip: an entity is reported in one of its
\* written forms and the same form is checked afterwards
MaxRoundTrips == 2   \* reports submitted in one run of the round trip
RoundTripEntities == {ReportedEntity, <<"8", "-", "8">>, <<"A", "@", "b">>}

ReportEntity(targetEntity, saveOk) ==
  /\ Len(reports) + Len(demoReports) < Len(ReportSeed) + MaxRoundTrips
  /\ ReportFraud(targetEntity, "Phishing", saveOk)

RoundTripNext ==
  \/ \E e \in RoundTripEntities, ok \in BOOLEAN : ReportEntity(e, ok)
  \/ \E e \in RoundTripEntities, rok \in BOOLEAN : RiskCheck(e, NoUser, rok)

(***************************************************************************)
(* Content analysis (routes/api.js: analyzeContentForFraud)                *)
(***************************************************************************)
Keywords_urgency ==
  << <<"u", "r", "g", "e", "n", "t">>,
     <<"i", "m", "m", "e", "d", "i", "a", "t", "e", "l", "y">>,
     <<"n", "o", "w">>,
     <<"a", "s", "a", "p">>,
     <<"h", "u", "r", "r", "y">>,
     <<"q", "u", "i", "c", "k", "l", "y">>,
     <<"f", "a", "s", "t">>,
     <<"l", "i", "m", "i", "t", "e", "d", " ", "t", "i", "m", "e">>,
     <<"a", "c", "t", " ", "n", "o", "w">>,
     <<"d", "o", "n", "'", "t", " ", "d", "e", "l", "a", "y">>,
     <<"l", "a", "s", "t", " ", "c", "h", "a", "n", "c", "e">>,
     <<"e", "x", "p", "i", "r", "e", "s", " ", "t", "o", "d", "a", "y">>,
     <<"d", "e", "a", "d", "l", "i", "n", "e">>,
     <<"2", "4", " ", "h", "o", "u", "r", "s">>,
     <<"w", "i", "t", "h", "i", "n", " ", "h", "o", "u", "r", "s">> >>

Keywords_financial ==
  << <<"b", "a", "n", "k", " ", "a", "c", "c", "o", "u", "n", "t">>,
     <<"c", "r", "e", "d", "i", "t", " ", "c", "a", "r", "d">>,
     <<"d", "e", "b", "i", "t", " ", "c", "a", "r", "d">>,
     <<"a", "t", "m">>,
     <<"p", "i", "n">>,
     <<"c", "v", "v">>,
     <<"o", "t", "p">>,
     <<"t", "r", "a", "n", "s", "f", "e", "r">>,
     <<"t", "r", "a", "n", "s", "a", "c", "t", "i", "o", "n">>,
     <<"p", "a", "y", "m", "e", "n", "t">>,
     <<"l", "o", "a", "n">>,
     <<"e", "m", "i">>,
     <<"u", "p", "i">>,
     <<"n", "e", "f", "t">>,
     <<"r", "t", "g", "s">>,
     <<"b", "l", "o", "c", "k", "e", "d">>,
     <<"s", "u", "s", "p", "e", "n", "d", "e", "d">>,
     <<"v", "e", "r", "i", "f", "y", " ", "a", "c", "c", "o", "u", "n", "t">>,
     <<"u", "p", "d", "a", "t", "e", " ", "k", "y", "c">>,
     <<"k", "y", "c", " ", "e", "x", "p", "i", "r", "e", "d">>,
     <<"p", "r", "i", "z", "e">>,
     <<"l", "o", "t", "t", "e", "r", "y">>,
     <<"j", "a", "c", "k", "p", "o", "t">>,
     <<"w", "o", "n">>,
     <<"w", "i", "n", "n", "e", "r">>,
     <<"r", "e", "w", "a", "r", "d">>,
     <<"c", "a", "s", "h", " ", "p", "r", "i", "z", "e">>,
     <<"r", "e", "f", "u", "n", "d">>,
     <<"c", "a", "s", "h", "b", "a", "c", "k">>,
     <<"b", "o", "n", "u", "s">> >>

Keywords_threats ==
  << <<"a", "c", "c", "o", "u", "n", "t", " ", "b", "l", "o", "c", "k", "e", "d">>,
     <<"a", "c", "c", "o", "u", "n", "t", " ", "s", "u", "s", "p", "e", "n", "d", "e", "d">>,
     <<"w", "i", "l", "l", " ", "b", "e", " ", "b", "l", "o", "c", "k", "e", "d">>,
     <<"w", "i", "l", "l", " ", "b", "e", " ", "s", "u", "s", "p", "e", "n", "d", "e", "d">>,
     <<"l", "e", "g", "a", "l", " ", "a", "c", "t", "i", "o", "n">>,
     <<"p", "o", "l", "i", "c", "e">>,
     <<"a", "r", "r", "e", "s", "t">>,
     <<"c", "a", "s", "e", " ", "f", "i", "l", "e", "d">>,
     <<"c", "o", "m", "p", "l", "a", "i", "n", "t">>,
     <<"c", "o", "u", "r", "t">>,
     <<"f", "i", "n", "e">>,
     <<"p", "e", "n", "a", "l", "t", "y">>,
     <<"c", "l", "o", "s", "u", "r", "e">>,
     <<"t", "e", "r", "m", "i", "n", "a", "t", "e">>,
     <<"d", "e", "a", "c", "t", "i", "v", "a", "t", "e">>,
     <<"s", "e", "i", "z", "e", "d">> >>

Keywords_impersonation ==
  << <<"c", "u", "s", "t", "o", "m", "e", "r", " ", "c", "a", "r", "e">>,
     <<"c", "u", "s", "t", "o", "m", "e", "r", " ", "s", "u", "p", "p", "o", "r", "t">>,
     <<"h", "e", "l", "p", "l", "i", "n", "e">>,
     <<"h", "e", "l", "p", "d", "e", "s", "k">>,
     <<"r", "b", "i">>,
     <<"r", "e", "s", "e", "r", "v", "e", " ", "b", "a", "n", "k">>,
     <<"i", "n", "c", "o", "m", "e", " ", "t", "a", "x">>,
     <<"i", "t", " ", "d", "e", "p", "a", "r", "t", "m", "e", "n", "t">>,
     <<"g", "o", "v", "e", "r", "n", "m", "e", "n", "t">>,
     <<"s", "b", "i">>,
     <<"h", "d", "f", "c">>,
     <<"i", "c", "i", "c", "i">>,
     <<"a", "x", "i", "s">>,
     <<"b", "a", "n", "k", " ", "m", "a", "n", "a", "g", "e", "r">>,
     <<"b", "a", "n", "k", " ", "o", "f", "f", "i", "c", "e", "r">>,
     <<"a", "m", "a", "z", "o", "n">>,
     <<"f", "l", "i", "p", "k", "a", "r", "t">>,
     <<"p", "a", "y", "t", "m">>,
     <<"p", "h", "o", "n", "e", "p", "e">>,
     <<"g", "p", "a", "y">>,
     <<"g", "o", "o", "g", "l", "e", " ", "p", "a", "y">> >>

Keywords_action_requests ==
  << <<"c", "l", "i", "c", "k", " ", "h", "e", "r", "e">>,
     <<"c", "l", "i", "c", "k", " ", "l", "i", "n", "k">>,
     <<"t", "a", "p", " ", "h", "e", "r", "e">>,
     <<"c", "l", "i", "c", "k", " ", "b", "e", "l", "o", "w">>,
     <<"v", "i", "s", "i", "t">>,
     <<"c", "a", "l", "l", " ", "t", "h", "i", "s", " ", "n", "u", "m", "b", "e", "r">>,
     <<"c", "a", "l", "l", " ", "u", "s">>,
     <<"d", "i", "a", "l">>,
     <<"c", "o", "n", "t", "a", "c", "t", " ", "i", "m", "m", "e", "d", "i", "a", "t", "e", "l", "y">>,
     <<"s", "h", "a", "r", "e", " ", "o", "t", "p">>,
     <<"s", "h", "a", "r", "e", " ", "p", "i", "n">>,
     <<"p", "r", "o", "v", "i", "d", "e", " ", "d", "e", "t", "a", "i", "l", "s">>,
     <<"v", "e", "r", "i", "f", "y", " ", "y", "o", "u", "r", "s", "e", "l", "f">>,
     <<"c", "o", "n", "f", "i", "r", "m", " ", "i", "d", "e", "n", "t", "i", "t", "y">>,
     <<"u", "p", "d", "a", "t", "e", " ", "d", "e", "t", "a", "i", "l", "s">>,
     <<"f", "i", "l", "l", " ", "f", "o", "r", "m">>,
     <<"d", "o", "w", "n", "l", "o", "a", "d", " ", "a", "p", "p">>,
     <<"i", "n", "s", "t", "a", "l", "l">>,
     <<"r", "e", "m", "o", "t", "e", " ", "a", "c", "c", "e", "s", "s">>,
     <<"a", "n", "y", "d", "e", "s", "k">>,
     <<"t", "e", "a", "m", "v", "i", "e", "w", "e", "r">> >>

Keywords_suspicious_patterns ==
  << <<"d", "e", "a", "r", " ", "c", "u", "s", "t", "o", "m", "e", "r">>,
     <<"d", "e", "a", "r", " ", "u", "s", "e", "r">>,
     <<"d", "e", "a", "r", " ", "v", "a", "l", "u", "e", "d">>,
     <<"r", "e", "s", "p", "e", "c", "t", "e", "d", " ", "s", "i", "r">>,
     <<"c", "o", "n", "f", "i", "d", "e", "n", "t", "i", "a", "l">>,
     <<"d", "o", " ", "n", "o", "t", " ", "s", "h", "a", "r", "e">>,
     <<"k", "e", "e", "p", " ", "s", "e", "c", "r", "e", "t">>,
     <<"f", "r", "e", "e", " ", "g", "i", "f", "t">>,
     <<"f", "r", "e", "e", " ", "o", "f", "f", "e", "r">>,
     <<"g", "e", "t", " ", "f", "r", "e", "e">>,
     <<"1", "0", "0", "%", " ", "f", "r", "e", "e">>,
     <<"g", "u", "a", "r", "a", "n", "t", "e", "e", "d">>,
     <<"n", "o", " ", "r", "i", "s", "k">>,
     <<"r", "i", "s", "k", " ", "f", "r", "e", "e">> >>

\* Object.entries(FRAUD_KEYWORDS), in order
FRAUD_KEYWORDS ==
  << [category |-> "urgency", keywords |-> Keywords_urgency],
     [category |-> "financial", keywords |-> Keywords_financial],
     [category |-> "threats", keywords |-> Keywords_threats],
     [category |-> "impersonation", keywords |-> Keywords_impersonation],
     [category |-> "action_requests", keywords |-> Keywords_action_requests],
     [category |-> "suspicious_patterns", keywords |-> Keywords_suspicious_patterns] >>

getCategoryWeight_flat(category) == 1
getCategoryWeight(category) ==
  CASE category = "urgency" -> 1
    [] category = "financial" -> 2
    [] category = "threats" -> 3
    [] category = "impersonation" -> 3
    [] category = "action_requests" -> 2
    [] category = "suspicious_patterns" -> 1
    [] OTHER -> 1

\* String.prototype.includes
includes(s, sub) ==
  \E i \in 1..(Len(s) - Len(sub) + 1) : SubSeq(s, i, i + Len(sub) - 1) = sub

Digits == {"0", "1", "2", "3", "4", "5", "6", "7", "8", "9"}

\* the position after the run [0-9]+ that starts at i, 0 when there is none
RECURSIVE DigitRunEnd(_, _)
DigitRunEnd(s, i) ==
  IF i <= Len(s) /\ s[i] \in Digits THEN DigitRunEnd(s, i + 1) ELSE i
AfterDigits(s, i) ==
  IF i = 0 THEN 0 ELSE IF DigitRunEnd(s, i) > i THEN DigitRunEnd(s, i) ELSE 0
AfterLiteral(s, i, lit) ==
  IF i # 0 /\ i + Len(lit) - 1 <= Len(s) /\ SubSeq(s, i, i + Len(lit) - 1) = lit
  THEN i + Len(lit) ELSE 0

\* /http[s]?:\/\/[0-9]+\.[0-9]+\.[0-9]+\.[0-9]+/i on the lower-cased text
MatchesIpUrl(s) ==
  \E i \in 1..Len(s) :
    \E scheme \in {<<"h", "t", "t", "p", ":", "/", "/">>,
                   <<"h", "t", "t", "p", "s", ":", "/", "/">>} :
      LET a == AfterDigits(s, AfterLiteral(s, i, scheme))
          b == AfterDigits(s, AfterLiteral(s, a, <<".">>))
          c == AfterDigits(s, AfterLiteral(s, b, <<".">>))
          d == AfterDigits(s, AfterLiteral(s, c, <<".">>)) IN
      d # 0

\* the link shorteners of urlPatterns
Shorteners ==
  { <<"b", "i", "t", ".", "l", "y">>, <<"t", "i", "n", "y", "u", "r", "l">>,
    <<"g", "o", "o", ".", "g", "l">>, <<"o", "w", ".", "l", "y">>,
    <<"t", ".", "c", "o">>, <<"s", "h", "o", "r", "t", "u", "r", "l">>,
    <<"t", "i", "n", "y", ".", "c", "c">>, <<"i", "s", ".", "g", "d">>,
    <<"v", ".", "g", "d">> }

\* some pattern of urlPatterns matches (all carry the i flag)
MatchesUrlPattern(content) ==
  LET lowerContent == toLowerCase(content) IN
  \/ \E p \in Shorteners : includes(lowerContent, p)
  \/ MatchesIpUrl(lowerContent)

\* (content.match(/[A-Z]/g) || []).length
CapsCount(content) == Len(SelectSeq(content, LAMBDA c : c \in UpperLetters))

RECURSIVE SumScores(_)
SumScores(findings) ==
  IF findings = <<>> THEN 0
  ELSE Head(findings).score + SumScores(Tail(findings))

ContentLevelOf(score) ==
  IF score = 0 THEN "safe"
  ELSE IF score <= 5 THEN "low"
  ELSE IF score <= 10 THEN "suspicious"
  ELSE "high_risk"

analyzeContentForFraud(content) ==
  IF content = <<>>
  THEN [isSuspicious |-> FALSE, score |-> 0, riskLevel |-> "undefined",
        findings |-> <<>>]
  ELSE
    LET lowerContent == toLowerCase(content)
        perCategory ==
          [i \in DOMAIN FRAUD_KEYWORDS |->
             LET matchedKeywords ==
                   SelectSeq(FRAUD_KEYWORDS[i].keywords,
                             LAMBDA keyword : includes(lowerContent, toLowerCase(keyword))) IN
             [category |-> FRAUD_KEYWORDS[i].category,
              matchedKeywords |-> matchedKeywords,
              score |-> Len(matchedKeywords)
                          * getCategoryWeight(FRAUD_KEYWORDS[i].category)]]
        keywordFindings == SelectSeq(perCategory, LAMBDA f : f.matchedKeywords # <<>>)
        urlFindings ==
          IF MatchesUrlPattern(content)
          THEN <<[category |-> "suspicious_url", matchedKeywords |-> <<>>, score |-> 3]>>
          ELSE <<>>
        \* capsRatio > 0.5 && content.length > 20
        capsFindings ==
          IF 2 * CapsCount(content) > Len(content) /\ Len(content) > 20
          THEN <<[category |-> "excessive_caps", matchedKeywords |-> <<>>, score |-> 2]>>
          ELSE <<>>
        findings == keywordFindings \o urlFindings \o capsFindings
        score == SumScores(findings) IN
    [isSuspicious |-> score > 0, score |-> score,
     riskLevel |-> ContentLevelOf(score), findings |-> findings]

(***************************************************************************)
(* Single calls: entity normalisation, content analysis, notification      *)
(* routing.  The call to make is drawn at the start, a step carries it out *)
(***************************************************************************)
MaxLen == 3          \* length of the strings normalised

NormAlphabet == {"A", "a", "@", " ", "\t", "-", "(", ")", "+", ".", "9"}
Strings(n) == UNION {[1..k -> NormAlphabet] : k \in 0..n}

FormattedNumber == <<" ", "+", "9", "1", " ", "9", "8", "7", "6", "5", "-", "4", "3", "2", "1", "0", " ">>
PlainNumber == <<"9", "8", "7", "6", "5", "4", "3", "2", "1", "0">>

NormalizeCalls ==
  {[op |-> "call", kind |-> "normalize", input |-> x] :
     x \in Strings(MaxLen) \cup {FormattedNumber, PlainNumber}}

\* normalizeEntity applied to the input, and once more to its own output
Normalize ==
  /\ riskOut.op = "call" /\ riskOut.kind = "normalize"
  /\ \E out \in {normalizeEntity(riskOut.input)} :
       riskOut' = [op |-> "normalize", input |-> riskOut.input, output |-> out,
                   again |-> normalizeEntity(out)]
  /\ UNCHANGED <<DEMO_MODE, reports, demoReports>>
  /\ RiskOnly

\* POST /analyze-content: the combination of the two analyses; entityRisk is
\* NoRisk when no sender entity was given
NoRisk == [riskLevel |-> "none", score |-> 0]

combinedRisk_contentLevel(contentAnalysis, entityRisk) ==
  [score |-> contentAnalysis.score + entityRisk.score,
   riskLevel |-> contentAnalysis.riskLevel]
combinedRisk(contentAnalysis, entityRisk) ==
  IF entityRisk = NoRisk
  THEN [score |-> contentAnalysis.score, riskLevel |-> contentAnalysis.riskLevel]
  ELSE [score |-> contentAnalysis.score + entityRisk.score,
        riskLevel |->
          IF entityRisk.riskLevel = "high_risk"
               \/ contentAnalysis.riskLevel = "high_risk"
          THEN "high_risk"
          ELSE IF entityRisk.riskLevel = "suspicious"
                    \/ contentAnalysis.riskLevel = "suspicious"
          THEN "suspicious"
          ELSE contentAnalysis.riskLevel]

MaxWords == 2        \* fragments a text is made of

Fragments ==
  { <<"u", "r", "g", "e", "n", "t">>,
    <<"b", "a", "n", "k", " ", "a", "c", "c", "o", "u", "n", "t">>,
    <<"c", "l", "i", "c", "k", " ", "h", "e", "r", "e">>,
    <<"a", "c", "c", "o", "u", "n", "t", " ", "b", "l", "o", "c", "k", "e", "d">>,
    <<"s", "b", "i">>,
    <<"d", "e", "a", "r", " ", "u", "s", "e", "r">>,
    <<"b", "i", "t", ".", "l", "y">>,
    <<"h", "t", "t", "p", ":", "/", "/", "1", ".", "2", ".", "3", ".", "4">>,
    <<"H", "E", "L", "L", "O", " ", "T", "H", "E", "R", "E", " ", "M", "Y", " ", "F", "R", "I", "E", "N", "D", " ", "X">>,
    <<"l", "e", "g", "a", "l", " ", "a", "c", "t", "i", "o", "n", " ", "p", "o", "l", "i", "c", "e">> }

RECURSIVE Join(_)
Join(ws) ==
  IF ws = <<>> THEN <<>>
  ELSE IF Len(ws) = 1 THEN ws[1]
  ELSE ws[1] \o <<" ">> \o Join(Tail(ws))

\* 'urgent', 'bank account' and 'click here' and no other keyword
ExampleText == <<"u", "r", "g", "e", "n", "t", " ", "b", "a", "n", "k", " ", "a", "c", "c", "o", "u", "n", "t", " ", "c", "l", "i", "c", "k", " ", "h", "e", "r", "e">>

Texts(n) == {Join(ws) : ws \in UNION {[1..k -> Fragments] : k \in 1..n}}

Senders == {<<>>, SafeEntity, <<"6", "-", "6">>, HighRiskEntity}

AnalyzeCalls ==
  {[op |-> "call", kind |-> "analyze", content |-> c, senderEntity |-> e,
    reportsOk |-> ok] :
     c \in Texts(MaxWords)
            \cup {<<>>, <<" ">>, <<" ", "h", "i", " ">>, ExampleText},
     e \in Senders, ok \in BOOLEAN}

\* POST /analyze-content
AnalyzeContent ==
  /\ riskOut.op = "call" /\ riskOut.kind = "analyze"
  /\ (riskOut.senderEntity = <<>> => riskOut.reportsOk)
  /\ LET content == trim(riskOut.content)
         senderEntity == riskOut.senderEntity IN
     IF content = <<>>
     THEN /\ riskOut' = [op |-> "analyze", status |-> 400]
          /\ UNCHANGED DEMO_MODE
     ELSE \E contentAnalysis \in {analyzeContentForFraud(content)},
             risk \in {IF senderEntity # <<>>
                       THEN calculateFraudRisk(senderEntity, DEMO_MODE,
                              riskOut.reportsOk, reports, demoReports, now)
                       ELSE [demo |-> DEMO_MODE, payload |-> NoRisk]} :
            /\ DEMO_MODE' = risk.demo
            /\ riskOut' =
                 [op |-> "analyze", status |-> 200, content |-> content,
                  senderEntity |-> senderEntity,
                  contentAnalysis |-> contentAnalysis,
                  entityRisk |-> [riskLevel |-> risk.payload.riskLevel,
                                  score |-> risk.payload.score],
                  combinedRisk |-> combinedRisk(contentAnalysis,
                                     [riskLevel |-> risk.payload.riskLevel,
                                      score |-> risk.payload.score])]
  /\ UNCHANGED <<reports, demoReports>>
  /\ RiskOnly

Priorities == {"low", "medium", "high", "critical"}
TargetChannels == {"undefined", "web", "sms", "email", "web_and_sms"}

DispatchCalls ==
  {[op |-> "call", kind |-> "dispatch", userId |-> u, type |-> "THREAT_ALERT",
    priority |-> p, content |-> [title |-> "High Risk Alert"],
    targetChannel |-> t] :
     u \in UserIds, p \in Priorities, t \in TargetChannels}

\* notificationService.dispatch
Dispatch ==
  /\ riskOut.op = "call" /\ riskOut.kind = "dispatch"
  /\ \E d \in {dispatch(riskOut.userId, riskOut, io)} :
       riskOut' = [op |-> "dispatch", userId |-> riskOut.userId,
                   priority |-> riskOut.priority,
                   targetChannel |-> riskOut.targetChannel,
                   unifiedPayload |-> d.unifiedPayload,
                   deliveries |-> d.deliveries, pushed |-> d.pushed]
  /\ UNCHANGED <<DEMO_MODE, reports, demoReports>>
  /\ RiskOnly

CallInit == riskOut \in NormalizeCalls \cup AnalyzeCalls \cup DispatchCalls

CallNext ==
  \/ Normalize
  \/ AnalyzeContent
  \/ Dispatch

(***************************************************************************)
(* Claims about risk scoring                                               *)
(***************************************************************************)
HeavyCategories == {"Phishing", "Identity Theft"}

\* C12: the result of a risk check has totalReports = number of matched
\* reports, score = that number + 2 x the number of Phishing / Identity
\* Theft reports among them, and level safe for 0, suspicious for 1..5,
\* high_risk above 5 (so six reports always give high_risk).
C12_ScoreAndLevel ==
  riskOut.op = "checkRisk" =>
    LET matched == riskOut.reports
        heavy == {i \in DOMAIN matched : matched[i].category \in HeavyCategories}
        score == riskOut.result.score
        level == riskOut.result.riskLevel IN
    /\ riskOut.result.totalReports = Len(matched)
    /\ score = Len(matched) + 2 * Cardinality(heavy)
    /\ level = "safe" <=> score = 0
    /\ level = "suspicious" <=> (1 <= score /\ score <= 5)
    /\ level = "high_risk" <=> score > 5
    /\ Len(matched) >= 6 => level = "high_risk"

\* five reports of another category: 5 / suspicious
C12_Witness ==
  /\ riskOut.op = "checkRisk" /\ Len(riskOut.reports) = 5
  /\ \A i \in DOMAIN riskOut.reports : riskOut.reports[i].category = "Other"
  /\ riskOut.result.score = 5 /\ riskOut.result.riskLevel = "suspicious"

\* C13 (as stated): on either storage path only the active reports of the
\* trailing 30 days stored under the normalized entity count; an entity
\* without such a report gets score 0 and level safe.
C13_OnlyQualifyingReportsCount ==
  riskOut.op = "checkRisk" =>
    LET key == riskOut.result.targetEntity
        store == IF riskOut.result.isDemo THEN demoReports ELSE reports
        qualifying == {i \in DOMAIN store :
                         /\ store[i].targetEntity = key
                         /\ store[i].isActive
                         /\ store[i].timestamp >= DayOf(now) - WindowDays} IN
    /\ riskOut.result.totalReports = Cardinality(qualifying)
    /\ qualifying = {} =>
         riskOut.result.score = 0 /\ riskOut.result.riskLevel = "safe"

\* C14 (as stated): a risk check whose report lookup fails still answers,
\* with the result of an entity without reports.
C14_LookupFailureDegradesToZero ==
  (riskOut.op = "checkRisk" /\ riskOut.retried) =>
    /\ riskOut.status = 200
    /\ riskOut.result.score = 0
    /\ riskOut.result.totalReports = 0
    /\ riskOut.result.riskLevel = "safe"

\* C15: a risk check dispatches a THREAT_ALERT exactly when a user id is
\* known and the level is high_risk, and then once, also after a failed
\* lookup; it answers with the same result whether or not the dispatch
\* succeeds.
C15_ThreatAlertOncePerHighRisk ==
  [][riskOut'.op = "checkRisk" =>
      LET due == riskOut'.userId # NoUser
                   /\ riskOut'.result.riskLevel = "high_risk"
          sent == riskOut'.dispatched IN
      /\ riskOut'.status = 200
      /\ Len(sent) = IF due THEN 1 ELSE 0
      /\ \A i \in DOMAIN sent :
           /\ sent[i].userId = riskOut'.userId
           /\ sent[i].unifiedPayload.type = "THREAT_ALERT"
      /\ riskOut'.result =
           calculateFraudRisk(riskOut'.entity, DEMO_MODE, ~riskOut'.retried,
                              reports, demoReports, now).payload]_vars

\* a signed-in user's check fell back after a failed lookup, found a
\* high-risk entity and its dispatch failed
C15_Witness ==
  /\ riskOut.op = "checkRisk" /\ riskOut.retried /\ riskOut.userId = "u1"
  /\ riskOut.result.riskLevel = "high_risk"
  /\ Len(riskOut.dispatched) = 1 /\ ~riskOut.dispatchOk

(***************************************************************************)
(* Claims about normalisation, content analysis and routing                *)
(***************************************************************************)
\* C16: normalize is idempotent; an input with '@' is trimmed and
\* lower-cased only, any other input loses its white space, '-', '(', ')',
\* '+', '.' and is lower-cased.
C16_NormalizeIdempotent ==
  riskOut.op = "normalize" =>
    /\ riskOut.again = riskOut.output
    /\ IF \E i \in DOMAIN riskOut.input : riskOut.input[i] = "@"
       THEN riskOut.output = trim(toLowerCase(riskOut.input))
       ELSE riskOut.output =
              toLowerCase(SelectSeq(riskOut.input,
                 LAMBDA c : c \notin {" ", "\t", "-", "(", ")", "+", "."}))

\* a formatted upper-case input without '@' was normalised
C16_Witness ==
  /\ riskOut.op = "normalize"
  /\ riskOut.input = <<"(", "A", ")">> /\ riskOut.output = <<"a">>
  /\ riskOut.again = <<"a">>

\* C17 (as stated): " +91 98765-43210 " and "9876543210" normalise to the
\* same lookup key.
C17_SameLookupKey ==
  (riskOut.op = "normalize" /\ riskOut.input \in {FormattedNumber, PlainNumber})
    => riskOut.output = PlainNumber

SeverityRank(level) ==
  CASE level = "safe" -> 0 [] level = "low" -> 1
    [] level = "suspicious" -> 2 [] level = "high_risk" -> 3

\* C18: the content score is the sum over the six categories of (keywords
\* of the category occurring in the text, case-insensitively) x weight,
\* plus 3 for a shortener / raw-IP URL, plus 2 for more than half capitals
\* in a text longer than 20; the level is safe / low / suspicious /
\* high_risk for 0 / 1-5 / 6-10 / above 10 and isSuspicious is score > 0;
\* the example text scores 5 and is low.
C18_ContentScore ==
  (riskOut.op = "analyze" /\ riskOut.status = 200) =>
    LET text == riskOut.content
        Occurs(k) ==
          \E i \in 0..(Len(text) - Len(k)) :
            \A j \in 1..Len(k) : LowerChar(text[i + j]) = LowerChar(k[j])
        Count(kws) == Cardinality({i \in DOMAIN kws : Occurs(kws[i])})
        capitals == Cardinality({i \in DOMAIN text : text[i] \in UpperLetters})
        expected ==
          Count(Keywords_urgency) + 2 * Count(Keywords_financial)
            + 3 * Count(Keywords_threats) + 3 * Count(Keywords_impersonation)
            + 2 * Count(Keywords_action_requests)
            + Count(Keywords_suspicious_patterns)
            + (IF MatchesUrlPattern(text) THEN 3 ELSE 0)
            + (IF 2 * capitals > Len(text) /\ Len(text) > 20 THEN 2 ELSE 0)
        score == riskOut.contentAnalysis.score
        level == riskOut.contentAnalysis.riskLevel IN
    /\ score = expected
    /\ level = "safe" <=> score = 0
    /\ level = "low" <=> (1 <= score /\ score <= 5)
    /\ level = "suspicious" <=> (6 <= score /\ score <= 10)
    /\ level = "high_risk" <=> score > 10
    /\ riskOut.contentAnalysis.isSuspicious <=> score > 0
    /\ text = ExampleText => (score = 5 /\ level = "low")

C18_Witness ==
  /\ riskOut.op = "analyze" /\ riskOut.status = 200
  /\ riskOut.content = ExampleText
  /\ Len(riskOut.contentAnalysis.findings) = 3
  /\ riskOut.contentAnalysis.score = 5
  /\ riskOut.contentAnalysis.riskLevel = "low"

\* C19: with a sender entity the combined score is the sum of the two
\* scores and the combined level the more severe of the two levels;
\* without one the combined result is the content result.
C19_CombinedRisk ==
  (riskOut.op = "analyze" /\ riskOut.status = 200) =>
    LET c == riskOut.contentAnalysis
        e == riskOut.entityRisk
        both == riskOut.combinedRisk IN
    IF riskOut.senderEntity = <<>>
    THEN both.score = c.score /\ both.riskLevel = c.riskLevel
    ELSE /\ both.score = c.score + e.score
         /\ both.riskLevel \in {c.riskLevel, e.riskLevel}
         /\ SeverityRank(both.riskLevel) >= SeverityRank(c.riskLevel)
         /\ SeverityRank(both.riskLevel) >= SeverityRank(e.riskLevel)

\* a low content with a high-risk sender
C19_Witness ==
  /\ riskOut.op = "analyze" /\ riskOut.status = 200
  /\ riskOut.senderEntity # <<>>
  /\ riskOut.contentAnalysis.riskLevel = "low"
  /\ riskOut.entityRisk.riskLevel = "high_risk"
  /\ riskOut.combinedRisk.riskLevel = "high_risk"
  /\ riskOut.combinedRisk.score > riskOut.contentAnalysis.score

\* the target channels that ask for SMS
AsksForSms(targetChannel) == targetChannel \in {"sms", "web_and_sms"}

\* C20 (as stated): the envelope always marks the push channel, marks SMS
\* exactly when the priority is critical or the target channel asks for
\* SMS, marks email exactly for high and critical; the SMS delivery is
\* carried out exactly when marked and the push is always attempted.
C20_ChannelRouting ==
  riskOut.op = "dispatch" =>
    LET channels == riskOut.unifiedPayload.channels
        delivered == {riskOut.deliveries[i] : i \in DOMAIN riskOut.deliveries} IN
    /\ channels.websocket
    /\ channels.sms <=> (riskOut.priority = "critical"
                           \/ AsksForSms(riskOut.targetChannel))
    /\ channels.email <=> riskOut.priority \in {"high", "critical"}
    /\ "sms" \in delivered <=> channels.sms
    /\ "websocket" \in delivered

C22_TestEmailScores90 ==
  /\ (riskOut.op = "checkRisk" /\ riskOut.entity = TestEmail)
       => riskOut.result.score = 90
  /\ (riskOut.op = "checkRisk"
        /\ \A i \in DOMAIN riskOut.reports : riskOut.reports[i].category = "Phishing")
       => riskOut.result.score = 3 * Len(riskOut.reports)

(***************************************************************************)
(* Claims about the life of a one-time-code record                         *)
(***************************************************************************)
\* C23: a record leaves the store only through expiry, the max-attempts
\* check, an explicit invalidate, or the grace-period deletion that follows
\* its own successful verification: the deletion timer of a verify never
\* removes a newer record that a later generate put under the same key.
C23_TimerRemovesOnlyItsRecord ==
  [][\A k \in DOMAIN otpStore :
       k \notin DOMAIN otpStore' =>
         \/ res'.op = "verify" /\ res'.error \in {"expired", "max_attempts"}
         \/ res'.op = "invalidate"
         \/ res'.op = "send-otp" /\ res'.error = "email_failed"
         \/ res'.op = "cleanup" /\ Swept(otpStore[k], now)
         \/ res'.op = "timer" /\ otpStore[k].verified]_vars

\* C24: verify runs to completion between any two other calls on the key, so
\* its check, increment and comparison act on one record: attempts never
\* exceeds maxAttempts, a code is compared only while attempts is below
\* maxAttempts (at most maxAttempts comparisons per record), and a correct
\* code submitted after maxAttempts wrong ones is not accepted.
C24_AtomicAttempts ==
  [][/\ \A k \in DOMAIN otpStore' : otpStore'[k].attempts <= maxAttempts
     /\ res'.op = "verify" =>
          LET k == res'.key IN
          /\ res'.error \in {"none", "invalid"} =>
               /\ Live(k) /\ otpStore[k].attempts < maxAttempts
               /\ otpStore'[k].ref = otpStore[k].ref
               /\ otpStore'[k].attempts = otpStore[k].attempts + 1
          /\ (Live(k) /\ otpStore[k].attempts >= maxAttempts)
               => ~res'.success /\ res'.error # "invalid"]_vars

\* maxAttempts wrong codes have been compared against a record that is
\* still stored, unverified and unexpired
C24_Witness ==
  /\ res.op = "verify" /\ res.error = "invalid"
  /\ Live(res.key) /\ otpStore[res.key].attempts = maxAttempts
  /\ ~otpStore[res.key].verified /\ now <= otpStore[res.key].expiresAt
  /\ otpStore[res.key].otp # trim(res.input)

(***************************************************************************)
(* Claims about the periodic sweep                                         *)
(***************************************************************************)
\* the instant the stored record of key k was verified: its deletion timer is
\* the latest one pending for the key and was set GraceMs ahead
VerifiedAt(k) ==
  LET due == {tm.fireAt : tm \in {x \in timers : x.key = k}} IN
  (CHOOSE d \in due : \A e \in due : e <= d) - GraceMs

\* C25: a sweep deletes exactly the records whose expiry has passed and the
\* records that have been verified for longer than the window of the sweep,
\* and no other record.
C25_SweepDeletesExactly ==
  [][res'.op = "cleanup" =>
       \A k \in DOMAIN otpStore :
         k \notin DOMAIN otpStore' <=>
           \/ now > otpStore[k].expiresAt
           \/ /\ otpStore[k].verified
              /\ now - VerifiedAt(k) > VerifiedMaxAgeMs]_vars

\* the second half of C25: while sweeps, due timers and the clock keep
\* running, every record that was ever stored is removed
HasRef(r) == \E k \in DOMAIN otpStore : otpStore[k].ref = r
C25_EventuallyRemoved == \A r \in 1..MaxGen : HasRef(r) ~> ~HasRef(r)

(***************************************************************************)
(* Claims about the report-then-check round trip                           *)
(***************************************************************************)
\* C26: once a report of the raw entity e has been accepted, a risk check of
\* the same e counts it (totalReports >= 1 and a level other than safe), for
\* every written form of e, formatted phone numbers included.  The report is
\* looked for in the store the check read, within the 30-day window.
C26_ReportThenCheck ==
  riskOut.op = "checkRisk" =>
    LET store == IF DEMO_MODE THEN demoReports ELSE reports IN
    (\E i \in DOMAIN store :
        /\ i > Len(ReportSeed) \/ DEMO_MODE
        /\ store[i].targetEntity = trim(toLowerCase(riskOut.entity))
        /\ store[i].isActive
        /\ store[i].timestamp >= DayOf(now) - WindowDays)
      => /\ riskOut.result.totalReports >= 1
         /\ riskOut.result.riskLevel # "safe"

(***************************************************************************)
(* Claims about repeated acknowledgement                                   *)
(***************************************************************************)
\* C27: an alert is acknowledged at most once: an acknowledge of an alert
\* that is already acknowledged is answered not-found and changes nothing,
\* so no second history entry is written and acknowledgedAt keeps its value.
C27_AcknowledgeOnce ==
  [][alertOut'.op = "acknowledge" =>
      LET doc == users[alertOut'.userId]
          at == IndexOfId(doc.pendingAlerts, alertOut'.alertId) IN
      (at > 0 /\ doc.pendingAlerts[at].acknowledged)
        => /\ alertOut'.status # 200
           /\ (alertOut'.fault = "none" /\ ~DEMO_MODE) => alertOut'.status = 404
           /\ users' = users]_vars

(***************************************************************************)
(* Claims about recovery from a store failure                              *)
(***************************************************************************)
\* C28: a store failure affects only the request that met it: a risk check
\* that does not itself meet a failing lookup (the store is reachable again)
\* answers from the persistent store, and the fallback flag does not stay on
\* for the requests after the failure.  The process starts connected, so no
\* reconnection attempt of connectDB is pending.
C28_FailureAffectsOneRequest ==
  [][(riskOut'.op = "checkRisk" /\ ~riskOut'.retried)
       => (~riskOut'.result.isDemo /\ ~DEMO_MODE')]_vars

(***************************************************************************)
(* The acknowledgement event of a channel, and the claims about it         *)
(***************************************************************************)
\* socket.on('alert:acknowledge', {alertId, action}): the confirmation is
\* emitted on the socket the event came in on
OnAlertAcknowledge(sid, alertId, action) ==
  /\ sid \in DOMAIN sockets
  /\ wsOut' = [op |-> "alert:acknowledged", userId |-> sockets[sid],
               ret |-> TRUE, to |-> {sid}, alertId |-> alertId,
               action |-> action, timestamp |-> now]
  /\ UNCHANGED <<io, connectedUsers, sockets, nextSocket>>
  /\ WsOnly

SocketAckNext ==
  \/ InitializeWebSocket
  \/ \E token \in Tokens : Connect(token)
  \/ \E sid \in DOMAIN sockets : Disconnect(sid)
  \/ \E sid \in 1..MaxSockets, id \in {1, 11, 99}, a \in {"", "blocked"} :
       OnAlertAcknowledge(sid, id, a)
  \/ \E u \in UserIds, id \in {1, 11} : Acknowledge(u, id, "blocked", "none")

\* C29: the inbound event alert:acknowledge{alertId, action} acts on the
\* server state as acknowledge(userId, alertId, action) does: when
\* alert:acknowledged is emitted the alert was a pending alert of the user of
\* the channel, is now marked acknowledged, is absent from the pending view
\* and has its history entry; an id of no pending alert of the user is not
\* confirmed.
C29_EventActsAsAcknowledge ==
  [][wsOut'.op = "alert:acknowledged" =>
      LET u == wsOut'.userId
          id == wsOut'.alertId
          at == IndexOfId(users[u].pendingAlerts, id)
          view == PendingView(users', DEMO_MODE', u)
          history == users'[u].alertHistory IN
      /\ at > 0
      /\ ~users[u].pendingAlerts[at].acknowledged
      /\ users'[u].pendingAlerts[at].acknowledged
      /\ \A i \in DOMAIN view : view[i].id # id
      /\ Len(history) = Min(Len(users[u].alertHistory) + 1, HistoryCap)
      /\ history[Len(history)] =
           HistoryEntry(users[u].pendingAlerts[at], wsOut'.action, now)]_vars

(***************************************************************************)
(* Account lockout: User.incLoginAttempts / resetLoginAttempts and the     *)
(* login route, whose awaits let other logins run in between               *)
(***************************************************************************)
MaxLogins == 2          \* login requests in flight at once
MaxLoginTime == 1800001 \* the clock of the login runs stops here

MaxFailures == 5
LockMs == 30 * 60 * 1000
NoLock == 0             \* lockUntil is not set

Unlocked == [loginAttempts |-> 0, lockUntil |-> NoLock]

\* user.lockUntil && user.lockUntil > Date.now()
isLocked(user, t) == user.lockUntil # NoLock /\ user.lockUntil > t

\* incLoginAttempts: the update is computed from the loaded document `this`
\* and applied by the store to the stored document ($inc, $set, $unset)
incLoginAttempts(this, stored, t) ==
  IF this.lockUntil # NoLock /\ this.lockUntil < t
  THEN [loginAttempts |-> 1, lockUntil |-> NoLock]
  ELSE [loginAttempts |-> stored.loginAttempts + 1,
        lockUntil |-> IF this.loginAttempts + 1 >= MaxFailures
                      THEN t + LockMs ELSE stored.lockUntil]

resetLoginAttempts(stored) == [loginAttempts |-> 0, lockUntil |-> NoLock]

Slots == 1..MaxLogins
IdleLogin(status) ==
  [pc |-> "idle", correct |-> FALSE, user |-> Unlocked, status |-> status]

LoginInit ==
  /\ account = Unlocked
  /\ logins = [r \in Slots |-> IdleLogin(0)]

\* POST /auth/login up to `await user.comparePassword`: the document is
\* loaded and the lock is tested on it
LoginFind(r, correct) ==
  /\ logins[r].pc = "idle"
  /\ ~DEMO_MODE
  /\ logins' = [logins EXCEPT ![r] =
       IF isLocked(account, now) THEN IdleLogin(423)
       ELSE [pc |-> "comparing", correct |-> correct, user |-> account,
             status |-> 0]]
  /\ UNCHANGED <<now, account>>
  /\ LoginOnly

\* the rest of the handler: comparePassword has answered
LoginCompare(r) ==
  /\ logins[r].pc = "comparing"
  /\ IF logins[r].correct
     THEN /\ account' = resetLoginAttempts(account)
          /\ logins' = [logins EXCEPT ![r] = IdleLogin(200)]
     ELSE /\ account' = incLoginAttempts(logins[r].user, account, now)
          /\ logins' = [logins EXCEPT ![r] = IdleLogin(401)]
  /\ UNCHANGED now
  /\ LoginOnly

\* time passes until the lock has run out
LoginTick ==
  /\ isLocked(account, now)
  /\ account.lockUntil + 1 <= MaxLoginTime
  /\ now' = account.lockUntil + 1
  /\ UNCHANGED <<account, logins>>
  /\ LoginOnly

LoginNext ==
  \/ \E r \in Slots, correct \in BOOLEAN : LoginFind(r, correct)
  \/ \E r \in Slots : LoginCompare(r)
  \/ LoginTick

\* C30: when the failed-login counter reaches 5 the account is locked, with
\* lockUntil 30 minutes ahead, under any interleaving of concurrent failed
\* logins; while the account is locked every login is rejected, a login with
\* the correct password included; a successful login resets the counter to 0
\* and clears the lock.
C30_Lockout ==
  [][/\ (account.loginAttempts < MaxFailures
           /\ account'.loginAttempts >= MaxFailures)
          => account'.lockUntil = now + LockMs
     /\ \A r \in Slots :
          (logins[r].pc = "comparing" /\ logins'[r].pc = "idle") =>
            /\ isLocked(account, now) => logins'[r].status # 200
            /\ logins'[r].status = 200 => account' = Unlocked
     /\ \A r \in Slots :
          (logins[r].pc = "idle" /\ logins'[r] # logins[r]
             /\ isLocked(account, now)) => logins'[r].status = 423]_vars

(***************************************************************************)
(* Specifications                                                          *)
(***************************************************************************)
Init == OtpInit /\ WsInit /\ AlertInit /\ RiskIdle /\ LoginInit
CallStart == OtpInit /\ WsInit /\ AlertInit /\ CallInit /\ LoginInit
AckStart == OtpInit /\ WsInit /\ AckInit /\ RiskIdle /\ LoginInit
RiskStart == OtpInit /\ WsInit /\ RiskInit /\ RiskIdle /\ LoginInit
Next == OtpNext

\* the one-time-code service
Spec == Init /\ [][Next]_vars
\* the connection registry
SpecWs == Init /\ [][WsNext]_vars
\* protection settings and the alert trigger, the push layer started
SpecTrigger == Init /\ [][TriggerNext]_vars
\* acknowledgments and triggers on a store with registered users
SpecAck == AckStart /\ [][AckNext]_vars
\* report submissions and risk checks
SpecRisk == RiskStart /\ [][RiskNext]_vars
\* single calls of the normalizer, the content analysis and the router
SpecCall == CallStart /\ [][CallNext]_vars
\* the one-time-code service with its callbacks scheduled fairly: a due
\* timer fires, a due sweep runs (setInterval), and time passes
SpecSweep ==
  /\ Init /\ [][SweepNext]_vars
  /\ WF_vars(\E tm \in timers : TimerFire(tm))
  /\ WF_vars(Cleanup)
  /\ WF_vars(SweepTick)
\* reports and checks of one entity in several written forms
SpecRoundTrip == RiskStart /\ [][RoundTripNext]_vars
\* channels, their acknowledgement events and the acknowledge request
SpecSocketAck == Init /\ [][SocketAckNext]_vars
\* concurrent logins to one account
SpecLogin == Init /\ [][LoginNext]_vars
\* the notification router over the connection registry
SpecNotify == Init /\ [][NotifyNext]_vars

====
